---- MODULE Spec2Model ----
(***************************************************************************)
(* A model of the AMQP specification loader of the qpid python client:     *)
(*   src/spec.py     SpecContainer, Spec, Class, Method, Field, load       *)
(*   src/xmlutil.py  Node, Builder                                         *)
(*                                                                         *)
(* Python values are modelled as follows.                                  *)
(*   - a str that the code takes apart (names, attribute values) is a      *)
(*     sequence of one-character strings;                                  *)
(*   - a dict is a function whose DOMAIN is the set of its keys;           *)
(*   - a list or tuple is a sequence; Python positions are 0-based and     *)
(*     kept 0-based wherever the code stores or compares them;             *)
(*   - an object with identity (Constant, Class, Method, Field) is a       *)
(*     record on a heap, a sequence of records; its reference is its       *)
(*     1-based place on the heap;                                          *)
(*   - a raised exception is an error tag, named after the error kinds of  *)
(*     the design: "Malformed", "DuplicateIdentity", "NotFound",           *)
(*     "TooManyArguments", "MultipleValues", "UnknownArgument".            *)
(***************************************************************************)
EXTENDS Integers, Sequences, FiniteSets, TLC

VARIABLES
  \* ---- SpecContainer on its own (SpecRegistry) ----
  rheap,      \* the items constructed so far: [name, id]
  reg,        \* the SpecContainer under test
  radded,     \* history: the references whose add returned normally, in order
  rcall,      \* history: the last add call, [item, before, err]
  \* ---- Method.arguments on its own (SpecArguments) ----
  aheap,      \* the Field objects of the method
  afields,    \* the method's fields SpecContainer
  acall,      \* the last call of arguments: [args, kwargs, out]
  \* ---- alias resolution loop of load_fields (SpecAlias) ----
  wdomains,   \* the domains dict of the document
  wtype,      \* the local variable "type" of load_fields
  wpc,        \* "idle", "loop" (at the while test), "done" (after the loop)
  \* ---- a function made by define_method and its calls (SpecStub) ----
  sheap,      \* the Field objects of a method, then the Method object
  sstub,      \* what define_method gave: [called, err, stub]
  scall,      \* the last call of the function: [called, args, kwargs, out]
  \* ---- load called twice on the same documents (SpecReload) ----
  tfirst,     \* the Spec the first call returned, NoSpec until the second call
  tpc,        \* "first" (the first call runs or has ended), "second" (the
              \* second), "changed" (the first model was changed since)
  \* ---- the Builder, and Node.has / get / [] on its tree (SpecTree) ----
  bnodes,     \* the Node objects: [name, attrs, noattrs, text, parent, children]
  bnode,      \* Builder.node, the current node
  bopen,      \* the input so far: the nodes of the tags started and not yet ended
  bcall,      \* the last call of has, get or [] on a node: [op, nd, key, out]
  \* ---- load and the consumers of its result (Spec) ----
  input,      \* the input: [primary, errata], the Node trees xmlutil.parse returns
  lpc,        \* where load is: "start", "roots", "constants", "domains", "class",
              \* "method", "resolve", "post_load", "return", "done", "failed", "hung"
  heap,       \* the Constant, Class, Method and Field objects constructed so far
  lspec,      \* the local variable spec of load
  lloc,       \* the other locals of load: [ri, ci, mi, domains, klass, added]
  lerr,       \* the exception load raised, NoError while it has raised none
  published,  \* what the caller of load has received
  ccall       \* the last call a consumer made on the published model

regVars   == <<rheap, reg, radded, rcall>>
argVars   == <<aheap, afields, acall>>
aliasVars == <<wdomains, wtype, wpc>>
loadVars  == <<input, lpc, heap, lspec, lloc, lerr, published, ccall>>
stubVars  == <<sheap, sstub, scall>>
reloadVars == <<tfirst, tpc>>
treeVars  == <<bnodes, bnode, bopen, bcall>>
vars      == <<regVars, argVars, aliasVars, loadVars, stubVars, reloadVars, treeVars>>

None == "None"
\* the reference that refers to no object (heap places start at 1)
NullRef == 0
NoError == "none"

(***************************************************************************)
(* Python dict and list helpers.                                           *)
(***************************************************************************)
EmptyDict == <<>>
HasKey(d, k) == k \in DOMAIN d
DictPut(d, k, v) == [x \in (DOMAIN d) \cup {k} |-> IF x = k THEN v ELSE d[x]]
DictPop(d, k) == [x \in (DOMAIN d) \ {k} |-> d[x]]
Range(s) == {s[i] : i \in DOMAIN s}

(***************************************************************************)
(* class SpecContainer.                                                    *)
(***************************************************************************)
\* SpecContainer.__init__
EmptyContainer ==
  [items |-> <<>>, byname |-> EmptyDict, byid |-> EmptyDict, indexes |-> EmptyDict]

\* A slip of add: the id index is not consulted.
ContainerAddNoIdCheck(c, h, item) ==
  IF HasKey(c.byname, h[item].name)
  THEN [c |-> c, err |-> "DuplicateIdentity"]
  ELSE [c |-> [items   |-> Append(c.items, item),
               byname  |-> DictPut(c.byname, h[item].name, item),
               byid    |-> DictPut(c.byid, h[item].id, item),
               indexes |-> DictPut(c.indexes, item, Len(c.items))],
        err |-> NoError]

\* A slip of add: the position recorded is the length after the append.
ContainerAddIndexAfter(c, h, item) ==
  IF HasKey(c.byname, h[item].name) \/ HasKey(c.byid, h[item].id)
  THEN [c |-> c, err |-> "DuplicateIdentity"]
  ELSE [c |-> [items   |-> Append(c.items, item),
               byname  |-> DictPut(c.byname, h[item].name, item),
               byid    |-> DictPut(c.byid, h[item].id, item),
               indexes |-> DictPut(c.indexes, item, Len(c.items) + 1)],
        err |-> NoError]

\* A slip of add: the name is entered before the id is looked up, so an
\* add refused for its id leaves the name behind in byname.
ContainerAddNameFirst(c, h, item) ==
  IF HasKey(c.byname, h[item].name)
  THEN [c |-> c, err |-> "DuplicateIdentity"]
  ELSE IF HasKey(c.byid, h[item].id)
  THEN [c |-> [c EXCEPT !.byname = DictPut(c.byname, h[item].name, item)],
        err |-> "DuplicateIdentity"]
  ELSE [c |-> [items   |-> Append(c.items, item),
               byname  |-> DictPut(c.byname, h[item].name, item),
               byid    |-> DictPut(c.byid, h[item].id, item),
               indexes |-> DictPut(c.indexes, item, Len(c.items))],
        err |-> NoError]

\* SpecContainer.add: h is the heap, item a reference into it.
ContainerAdd(c, h, item) ==
  IF HasKey(c.byname, h[item].name)
  THEN [c |-> c, err |-> "DuplicateIdentity"]
  ELSE IF HasKey(c.byid, h[item].id)
  THEN [c |-> c, err |-> "DuplicateIdentity"]
  ELSE [c |-> [items   |-> Append(c.items, item),
               byname  |-> DictPut(c.byname, h[item].name, item),
               byid    |-> DictPut(c.byid, h[item].id, item),
               indexes |-> DictPut(c.indexes, item, Len(c.items))],
        err |-> NoError]

\* SpecContainer.index
ContainerIndex(c, item) ==
  IF HasKey(c.indexes, item)
  THEN [err |-> NoError, val |-> c.indexes[item]]
  ELSE [err |-> "NotFound", val |-> -1]

\* SpecContainer.__iter__
ContainerIter(c) == c.items

\* SpecContainer.__len__
ContainerLen(c) == Len(c.items)

\* container.byname[name], the lookup the callers write
ContainerByName(c, name) ==
  IF HasKey(c.byname, name)
  THEN [err |-> NoError, val |-> c.byname[name]]
  ELSE [err |-> "NotFound", val |-> NullRef]

\* container.byid[id]
ContainerById(c, id) ==
  IF HasKey(c.byid, id)
  THEN [err |-> NoError, val |-> c.byid[id]]
  ELSE [err |-> "NotFound", val |-> NullRef]


(***************************************************************************)
(* class Method: arguments.                                                *)
(* A value is modelled by its Python repr, a string.                       *)
(***************************************************************************)
\* Method.DEFAULTS
DEFAULTS ==
  (<<"b", "i", "t">> :> "False") @@
  (<<"s", "h", "o", "r", "t", "s", "t", "r">> :> "''") @@
  (<<"l", "o", "n", "g", "s", "t", "r">> :> "''") @@
  (<<"t", "a", "b", "l", "e">> :> "{}") @@
  (<<"o", "c", "t", "e", "t">> :> "0") @@
  (<<"s", "h", "o", "r", "t">> :> "0") @@
  (<<"l", "o", "n", "g">> :> "0") @@
  (<<"l", "o", "n", "g", "l", "o", "n", "g">> :> "0") @@
  (<<"t", "i", "m", "e", "s", "t", "a", "m", "p">> :> "0") @@
  (<<"c", "o", "n", "t", "e", "n", "t">> :> "None")

\* A slip of the fill loop: the field's id is taken for its position.
RECURSIVE ArgumentsFillById(_, _, _, _, _, _)
ArgumentsFillById(h, fields, args, k, result, kw) ==
  IF k > Len(ContainerIter(fields))
  THEN [err |-> NoError, result |-> result, kw |-> kw]
  ELSE LET f == ContainerIter(fields)[k]
           idx == h[f].id
       IN IF idx < Len(args)
          THEN ArgumentsFillById(h, fields, args, k + 1, Append(result, args[idx + 1]), kw)
          ELSE IF HasKey(kw, h[f].name)
          THEN ArgumentsFillById(h, fields, args, k + 1, Append(result, kw[h[f].name]),
                                 DictPop(kw, h[f].name))
          ELSE IF HasKey(DEFAULTS, h[f].type)
          THEN ArgumentsFillById(h, fields, args, k + 1, Append(result, DEFAULTS[h[f].type]), kw)
          ELSE [err |-> "KeyError", result |-> result, kw |-> kw]

\* The loop "for f in self.fields" of arguments, from the k-th field on:
\* result is the list built so far, kw what is left of kwargs.
RECURSIVE ArgumentsFill(_, _, _, _, _, _)
ArgumentsFill(h, fields, args, k, result, kw) ==
  IF k > Len(ContainerIter(fields))
  THEN [err |-> NoError, result |-> result, kw |-> kw]
  ELSE LET f == ContainerIter(fields)[k]
           idx == ContainerIndex(fields, f).val
       IN IF idx < Len(args)
          THEN ArgumentsFill(h, fields, args, k + 1, Append(result, args[idx + 1]), kw)
          ELSE IF HasKey(kw, h[f].name)
          THEN ArgumentsFill(h, fields, args, k + 1, Append(result, kw[h[f].name]),
                             DictPop(kw, h[f].name))
          ELSE IF HasKey(DEFAULTS, h[f].type)
          THEN ArgumentsFill(h, fields, args, k + 1, Append(result, DEFAULTS[h[f].type]), kw)
          ELSE [err |-> "KeyError", result |-> result, kw |-> kw]

ArgsError(e) == [err |-> e, val |-> <<>>]

\* A slip of the loop over the names left: both branches raise the same message.
ArgumentsLeftoverOneKind(fields, kw) ==
  {ArgsError("UnknownArgument") : key \in DOMAIN kw}

\* The loop "for key, value in kwargs.items()" of arguments: it raises at the
\* first key, and a dict's order is not specified, so every key left may be
\* the first.
ArgumentsLeftover(fields, kw) ==
  {ArgsError(IF HasKey(fields.byname, key) THEN "MultipleValues" ELSE "UnknownArgument") :
     key \in DOMAIN kw}

\* A slip of the length test: it counts the positional values only.
ArgumentsCountsPositionalOnly(h, fields, args, kwargs) ==
  IF Len(args) > ContainerLen(fields)
  THEN {ArgsError("TooManyArguments")}
  ELSE LET r == ArgumentsFill(h, fields, [i \in 1..Len(args) |-> args[i]], 1, <<>>, kwargs)
       IN IF r.err # NoError THEN {ArgsError(r.err)}
          ELSE IF DOMAIN r.kw # {} THEN ArgumentsLeftover(fields, r.kw)
          ELSE {[err |-> NoError, val |-> r.result]}

\* Method.arguments(*args, **kwargs): the set of its possible outcomes,
\* [err, val]; h is the heap that holds the Field objects of fields.
Arguments(h, fields, args, kwargs) ==
  LET nargs == Len(args) + Cardinality(DOMAIN kwargs)
      maxargs == ContainerLen(fields)
  IN IF nargs > maxargs
     THEN {ArgsError("TooManyArguments")}
     ELSE LET r == ArgumentsFill(h, fields, args, 1, <<>>, kwargs)
          IN IF r.err # NoError THEN {ArgsError(r.err)}
             ELSE IF DOMAIN r.kw # {} THEN ArgumentsLeftover(fields, r.kw)
             ELSE {[err |-> NoError, val |-> r.result]}

(***************************************************************************)
(* load_fields: the resolution of a declared type through the domains     *)
(* dict.                                                                  *)
(***************************************************************************)
\* the loop condition: domains.has_key(type) and domains[type] != type
AliasLoopCondition(domains, type) == HasKey(domains, type) /\ domains[type] # type

RECURSIVE ResolveLoop(_, _, _)
\* The whole while loop as a function: the type it leaves with, or hangs =
\* TRUE when it never leaves.  Each pass moves to another key of domains;
\* a loop that has made as many passes as domains has keys and still finds
\* its condition true is at a key it has been at, and goes round for ever.
ResolveLoop(domains, type, fuel) ==
  IF ~AliasLoopCondition(domains, type) THEN [hangs |-> FALSE, type |-> type]
  ELSE IF fuel = 0 THEN [hangs |-> TRUE, type |-> type]
  ELSE ResolveLoop(domains, domains[type], fuel - 1)

\* A slip of load_fields: the declared type is looked up once, not to the end.
ResolveTypeOnce(domains, type) ==
  [hangs |-> FALSE, type |-> IF HasKey(domains, type) THEN domains[type] ELSE type]

ResolveType(domains, type) == ResolveLoop(domains, type, Cardinality(DOMAIN domains))

(***************************************************************************)
(* xmlutil.Node, as load reads it.  A node is a record [name, attrs,       *)
(* noattrs, text, children]: attrs is the dict of its attributes (the key  *)
(* "@x" of the code is the key "x" here), noattrs says that attrs is None  *)
(* (the node parse() makes itself, Node("root")), text is None or a str.   *)
(***************************************************************************)
\* Node.__init__, for a node the Builder makes: Node(name, attrs, None, parent)
Tag(name, attrs, text, children) ==
  [name |-> name, attrs |-> attrs, noattrs |-> FALSE, text |-> text, children |-> children]

\* parse(): doc = Node("root"), with what the Builder hangs below it
RootNode(children) ==
  [name |-> "root", attrs |-> EmptyDict, noattrs |-> TRUE, text |-> None, children |-> children]

\* nd[name] for a name without "@": filter(lambda nd: nd.name == name, children)
NodeChildren(nd, name) == SelectSeq(nd.children, LAMBDA c : c.name = name)

\* the values of x.index() for the nodes x of nd[name], in order: the 0-based
\* places, among all the children of nd, of the children called name
NodeChildIndexes(nd, name) ==
  SelectSeq([i \in 1..Len(nd.children) |-> i - 1], LAMBDA i : nd.children[i + 1].name = name)

\* nd["@key"]: self.attrs[key], a KeyError when the attribute is missing
NodeAttr(nd, key) ==
  IF HasKey(nd.attrs, key)
  THEN [err |-> NoError, val |-> nd.attrs[key]]
  ELSE [err |-> "Malformed", val |-> None]

\* Node.has("@key")
NodeHasAttr(nd, key) == NodeAttr(nd, key).err = NoError

\* Node.get("@key"), with its default None
NodeGetAttr(nd, key) == IF NodeHasAttr(nd, key) THEN NodeAttr(nd, key).val ELSE None

\* the decimal digits int() reads
DigitValue ==
  ("0" :> 0) @@ ("1" :> 1) @@ ("2" :> 2) @@ ("3" :> 3) @@ ("4" :> 4) @@
  ("5" :> 5) @@ ("6" :> 6) @@ ("7" :> 7) @@ ("8" :> 8) @@ ("9" :> 9)

RECURSIVE DecimalValue(_)
DecimalValue(s) ==
  IF s = <<>> THEN 0
  ELSE 10 * DecimalValue(SubSeq(s, 1, Len(s) - 1)) + DigitValue[s[Len(s)]]

\* int(s) for an attribute value s: a ValueError unless s is a numeral
\* (a str of digits; signs and blanks are not among the inputs modelled)
PyInt(s) ==
  IF Len(s) > 0 /\ \A i \in DOMAIN s : s[i] \in DOMAIN DigitValue
  THEN [err |-> NoError, val |-> DecimalValue(s)]
  ELSE [err |-> "Malformed", val |-> 0]

\* Node.get_bool("@key", False): bool(int(v)), the default without the attribute
NodeGetBool(nd, key) ==
  IF ~NodeHasAttr(nd, key) THEN [err |-> NoError, val |-> FALSE]
  ELSE LET n == PyInt(NodeAttr(nd, key).val)
       IN [err |-> n.err, val |-> n.err = NoError /\ n.val # 0]

\* REPLACE
REPLACE == (" " :> "_") @@ ("-" :> "_")
\* KEYWORDS
KEYWORDS == (<<"g", "l", "o", "b", "a", "l">> :> <<"g", "l", "o", "b", "a", "l", "_">>) @@ (<<"r", "e", "t", "u", "r", "n">> :> <<"r", "e", "t", "u", "r", "n", "_">>)

\* A slip of pythonize: the hyphen is left as it is.
PythonizeKeepsHyphen(name) ==
  LET replaced == [i \in DOMAIN name |-> IF name[i] = " " THEN "_" ELSE name[i]]
  IN IF replaced \in DOMAIN KEYWORDS THEN KEYWORDS[replaced] ELSE replaced

\* pythonize(name): every " " and "-" becomes "_" (no replacement makes a
\* character another replacement would touch, so their order is immaterial),
\* then a name that is a key of KEYWORDS is exchanged
Pythonize(name) ==
  LET replaced == [i \in DOMAIN name |->
                     IF name[i] \in DOMAIN REPLACE THEN REPLACE[name[i]] ELSE name[i]]
  IN IF replaced \in DOMAIN KEYWORDS THEN KEYWORDS[replaced] ELSE replaced

\* get_docs(nd)
GetDocs(nd) ==
  LET ds == NodeChildren(nd, "doc") IN [i \in 1..Len(ds) |-> ds[i].text]

(***************************************************************************)
(* The metadata classes.                                                   *)
(***************************************************************************)
\* Spec.__init__; loaded says whether post_load has set module and klass
NewSpec(major, minor, file) ==
  [major |-> major, minor |-> minor, file |-> file,
   constants |-> EmptyContainer, classes |-> EmptyContainer, methods |-> EmptyDict,
   loaded |-> FALSE, module |-> EmptyDict, klass |-> EmptyDict]

\* Constant.__init__ (its spec is the one Spec of the load)
NewConstant(name, id, klass, docs) ==
  [kind |-> "Constant", name |-> name, id |-> id, klass |-> klass, docs |-> docs]

\* Class.__init__
NewClass(name, id, handler, docs) ==
  [kind |-> "Class", name |-> name, id |-> id, handler |-> handler,
   fields |-> EmptyContainer, methods |-> EmptyContainer, docs |-> docs]

\* Method.__init__; resolved says whether responses holds Method references
\* (after load has resolved them) or still the names; doc is <<>> until
\* define_method sets __doc__, then <<the docstring>>
NewMethod(klass, name, id, content, responses, synchronous, description, docs) ==
  [kind |-> "Method", klass |-> klass, name |-> name, id |-> id, content |-> content,
   responses |-> responses, resolved |-> FALSE, synchronous |-> synchronous,
   fields |-> EmptyContainer, description |-> description, docs |-> docs,
   response |-> FALSE, doc |-> <<>>]

\* Field.__init__
NewField(name, id, type, docs) ==
  [kind |-> "Field", name |-> name, id |-> id, type |-> type, docs |-> docs]

(***************************************************************************)
(* load_fields.                                                            *)
(***************************************************************************)
\* try: type = f_nd["@domain"] except KeyError: type = f_nd["@type"]
DeclaredType(f_nd) ==
  IF HasKey(f_nd.attrs, "domain")
  THEN [err |-> NoError, val |-> f_nd.attrs["domain"]]
  ELSE NodeAttr(f_nd, "type")

\* A slip of load_fields: the field is put in front of the container's
\* items, not behind them (the positions recorded move along).
ContainerAddFront(c, h, item) ==
  IF HasKey(c.byname, h[item].name) \/ HasKey(c.byid, h[item].id)
  THEN [c |-> c, err |-> "DuplicateIdentity"]
  ELSE [c |-> [items   |-> <<item>> \o c.items,
               byname  |-> DictPut(c.byname, h[item].name, item),
               byid    |-> DictPut(c.byid, h[item].id, item),
               indexes |-> DictPut([x \in DOMAIN c.indexes |-> c.indexes[x] + 1], item, 0)],
        err |-> NoError]

\* l.add(...) as load_fields calls it
FieldAdd(c, h, item) == ContainerAdd(c, h, item)

RECURSIVE LoadFieldsFrom(_, _, _, _, _)
\* The loop of load_fields over the field children of nd whose 0-based places
\* among nd's children are idxs; c is the container l.  The result is the
\* heap, the container and the error that ended the loop ("Hang": the while
\* loop never ends).
LoadFieldsFrom(h, c, nd, domains, idxs) ==
  IF idxs = <<>> THEN [h |-> h, c |-> c, err |-> NoError]
  ELSE
    LET f_nd == nd.children[Head(idxs) + 1]
        decl == DeclaredType(f_nd)
        res == ResolveType(domains, decl.val)
        nm == NodeAttr(f_nd, "name")
        h2 == Append(h, NewField(Pythonize(nm.val), Head(idxs), res.type, GetDocs(f_nd)))
        r == FieldAdd(c, h2, Len(h2))
    IN IF decl.err # NoError THEN [h |-> h, c |-> c, err |-> decl.err]
       ELSE IF res.hangs THEN [h |-> h, c |-> c, err |-> "Hang"]
       ELSE IF nm.err # NoError THEN [h |-> h, c |-> c, err |-> nm.err]
       ELSE IF r.err # NoError THEN [h |-> h2, c |-> c, err |-> r.err]
       ELSE LoadFieldsFrom(h2, r.c, nd, domains, Tail(idxs))

\* load_fields(nd, l, domains)
LoadFields(h, c, nd, domains) ==
  LoadFieldsFrom(h, c, nd, domains, NodeChildIndexes(nd, "field"))

(***************************************************************************)
(* Method.docstring and Method.define_method.                              *)
(***************************************************************************)
\* the keywords of the Python the module is written in
PyKeywords == {<<"a", "n", "d">>,
               <<"a", "s">>,
               <<"a", "s", "s", "e", "r", "t">>,
               <<"b", "r", "e", "a", "k">>,
               <<"c", "l", "a", "s", "s">>,
               <<"c", "o", "n", "t", "i", "n", "u", "e">>,
               <<"d", "e", "f">>,
               <<"d", "e", "l">>,
               <<"e", "l", "i", "f">>,
               <<"e", "l", "s", "e">>,
               <<"e", "x", "c", "e", "p", "t">>,
               <<"e", "x", "e", "c">>,
               <<"f", "i", "n", "a", "l", "l", "y">>,
               <<"f", "o", "r">>,
               <<"f", "r", "o", "m">>,
               <<"g", "l", "o", "b", "a", "l">>,
               <<"i", "f">>,
               <<"i", "m", "p", "o", "r", "t">>,
               <<"i", "n">>,
               <<"i", "s">>,
               <<"l", "a", "m", "b", "d", "a">>,
               <<"n", "o", "t">>,
               <<"o", "r">>,
               <<"p", "a", "s", "s">>,
               <<"p", "r", "i", "n", "t">>,
               <<"r", "a", "i", "s", "e">>,
               <<"r", "e", "t", "u", "r", "n">>,
               <<"t", "r", "y">>,
               <<"w", "h", "i", "l", "e">>,
               <<"w", "i", "t", "h">>,
               <<"y", "i", "e", "l", "d">>}
Letters == {"a", "b", "c", "d", "e", "f", "g", "h", "i", "j", "k", "l", "m", "n", "o", "p", "q", "r", "s", "t", "u", "v", "w", "x", "y", "z",
            "A", "B", "C", "D", "E", "F", "G", "H", "I", "J", "K", "L", "M", "N", "O", "P", "Q", "R", "S", "T", "U", "V", "W", "X", "Y", "Z"}
\* what "def <name>(...)" and its parameter names must be for exec to compile
IsIdentifier(name) ==
  /\ Len(name) > 0
  /\ name[1] \in Letters \cup {"_"}
  /\ \A i \in DOMAIN name : name[i] \in Letters \cup {"_"} \cup DOMAIN DigitValue
  /\ name \notin PyKeywords

\* fill(text, ...) calls text.split(): an AttributeError when text is None
FillFails(text) == text = None

\* Method.docstring(): its parts before wrapping, [description, docs, fields,
\* responses], or the AttributeError of a fill
Docstring(h, m) ==
  LET fs == [k \in 1..Len(h[m].fields.items) |-> h[h[m].fields.items[k]]]
      withdocs == SelectSeq(fs, LAMBDA f : f.docs # <<>>)
  IN IF \/ FillFails(h[m].description)
        \/ \E i \in DOMAIN h[m].docs : FillFails(h[m].docs[i])
        \/ \E k \in DOMAIN withdocs : \E i \in DOMAIN withdocs[k].docs : FillFails(withdocs[k].docs[i])
     THEN [err |-> "AttributeError", val |-> <<>>]
     ELSE [err |-> NoError,
           val |-> <<[description |-> h[m].description, docs |-> h[m].docs,
                      fields |-> [k \in DOMAIN withdocs |->
                                    [name |-> withdocs[k].name, docs |-> withdocs[k].docs]],
                      responses |-> [k \in DOMAIN h[m].responses |-> h[h[m].responses[k]].name]]>>]

\* A slip of define_method: a type without a default gets the default None.
StubDefaultLenient(type) ==
  [err |-> NoError, val |-> IF HasKey(DEFAULTS, type) THEN DEFAULTS[type] ELSE "None"]

\* Method.DEFAULTS[f.type] in define_method: a KeyError for any other type
StubDefault(type) ==
  IF HasKey(DEFAULTS, type)
  THEN [err |-> NoError, val |-> DEFAULTS[type]]
  ELSE [err |-> "KeyError", val |-> None]

\* Method.define_method(name): the heap (the method's __doc__ is set first),
\* the function made, as [method, name, params, content], and the error
\* that stopped it.  params are the parameters after self, [name, default].
DefineMethod(h, m, name) ==
  LET ds == Docstring(h, m)
      h2 == [h EXCEPT ![m].doc = ds.val]
      fs == h[m].fields.items
      args == [k \in DOMAIN fs |-> [name |-> h[fs[k]].name, default |-> StubDefault(h[fs[k]].type).val]]
      params == IF h[m].content THEN Append(args, [name |-> <<"c", "o", "n", "t", "e", "n", "t">>, default |-> "None"]) ELSE args
      pnames == <<<<"s", "e", "l", "f">>>> \o [k \in DOMAIN params |-> params[k].name]
      stub == [method |-> m, name |-> name, params |-> params, content |-> h[m].content]
      NoStub == [method |-> NullRef, name |-> name, params |-> <<>>, content |-> FALSE]
  IN IF ds.err # NoError THEN [h |-> h, stub |-> NoStub, err |-> ds.err]
     ELSE IF \E k \in DOMAIN fs : StubDefault(h[fs[k]].type).err # NoError
     THEN [h |-> h2, stub |-> NoStub, err |-> "KeyError"]
     ELSE IF \/ ~IsIdentifier(name)
             \/ \E k \in DOMAIN pnames : ~IsIdentifier(pnames[k])
             \/ \E i, j \in DOMAIN pnames : i # j /\ pnames[i] = pnames[j]
     THEN [h |-> h2, stub |-> NoStub, err |-> "SyntaxError"]
     ELSE [h |-> h2, stub |-> stub, err |-> NoError]

(***************************************************************************)
(* load, one operator per stretch of it.  Each takes the heap, the local   *)
(* spec and the other locals and gives [h, spec, loc, pc, err]: what they  *)
(* are where the stretch ends or raises, and where load goes next.         *)
(***************************************************************************)
\* int(nd["@key"])
AttrInt(nd, key) ==
  LET a == NodeAttr(nd, key)
  IN IF a.err # NoError THEN [err |-> a.err, val |-> 0] ELSE PyInt(a.val)

Outcome(h, spec, loc, pc, err) == [h |-> h, spec |-> spec, loc |-> loc, pc |-> pc, err |-> err]

\* the root the loop "for root in ..." is at
CurrentRoot(loc) == loc.roots[loc.ri]

\* the end of the body of "for root in ...": the next root, or post_load
AfterRoot(loc) ==
  IF loc.ri < Len(loc.roots)
  THEN [pc |-> "constants", loc |-> [loc EXCEPT !.ri = loc.ri + 1, !.ci = 0, !.mi = 0]]
  ELSE [pc |-> "post_load", loc |-> loc]

\* doc = xmlutil.parse(specfile); spec_root = doc["amqp"][0];
\* spec = Spec(int(spec_root["@major"]), int(spec_root["@minor"]), specfile)
StartStep(h, spec, loc, inp) ==
  LET amqp == NodeChildren(inp.primary, "amqp")
      major == AttrInt(amqp[1], "major")
      minor == AttrInt(amqp[1], "minor")
  IN IF amqp = <<>> THEN Outcome(h, spec, loc, "roots", "Malformed")
     ELSE IF major.err # NoError THEN Outcome(h, spec, loc, "roots", major.err)
     ELSE IF minor.err # NoError THEN Outcome(h, spec, loc, "roots", minor.err)
     ELSE Outcome(h, NewSpec(major.val, minor.val, "specfile"),
                  [loc EXCEPT !.roots = <<amqp[1]>>], "roots", NoError)

\* [spec_root] + map(lambda x: xmlutil.parse(x)["amqp"][0], errata)
RootsStep(h, spec, loc, inp) ==
  IF \E i \in DOMAIN inp.errata : NodeChildren(inp.errata[i], "amqp") = <<>>
  THEN Outcome(h, spec, loc, "constants", "Malformed")
  ELSE Outcome(h, spec,
               [loc EXCEPT !.roots = loc.roots \o
                              [i \in DOMAIN inp.errata |-> NodeChildren(inp.errata[i], "amqp")[1]],
                           !.ri = 1],
               "constants", NoError)

RECURSIVE AddConstants(_, _, _)
\* for nd in root["constant"]: ... spec.constants.add(const)
AddConstants(h, c, nds) ==
  IF nds = <<>> THEN [h |-> h, c |-> c, err |-> NoError]
  ELSE
    LET nd == Head(nds)
        nm == NodeAttr(nd, "name")
        value == AttrInt(nd, "value")
        h2 == Append(h, NewConstant(Pythonize(nm.val), value.val,
                                    NodeGetAttr(nd, "class"), GetDocs(nd)))
        r == ContainerAdd(c, h2, Len(h2))
    IN IF nm.err # NoError THEN [h |-> h, c |-> c, err |-> nm.err]
       ELSE IF value.err # NoError THEN [h |-> h, c |-> c, err |-> value.err]
       ELSE IF r.err # NoError THEN [h |-> h2, c |-> c, err |-> r.err]
       ELSE AddConstants(h2, r.c, Tail(nds))

ConstantsStep(h, spec, loc) ==
  LET r == AddConstants(h, spec.constants, NodeChildren(CurrentRoot(loc), "constant"))
  IN Outcome(r.h, [spec EXCEPT !.constants = r.c], loc, "domains", r.err)

RECURSIVE BuildDomains(_, _)
\* for nd in root["domain"]: domains[nd["@name"]] = nd["@type"]
BuildDomains(d, nds) ==
  IF nds = <<>> THEN [d |-> d, err |-> NoError]
  ELSE LET ty == NodeAttr(Head(nds), "type")
           nm == NodeAttr(Head(nds), "name")
       IN IF ty.err # NoError THEN [d |-> d, err |-> ty.err]
          ELSE IF nm.err # NoError THEN [d |-> d, err |-> nm.err]
          ELSE BuildDomains(DictPut(d, nm.val, ty.val), Tail(nds))

\* A slip of load: the domains dict of the document before is kept and added to.
DomainsStepCarriesOver(h, spec, loc) ==
  LET r == BuildDomains(loc.domains, NodeChildren(CurrentRoot(loc), "domain"))
      l2 == [loc EXCEPT !.domains = r.d]
  IN IF NodeChildren(CurrentRoot(loc), "class") # <<>>
     THEN Outcome(h, spec, [l2 EXCEPT !.ci = 1], "class", r.err)
     ELSE Outcome(h, spec, AfterRoot(l2).loc, AfterRoot(l2).pc, r.err)

\* domains = {}; the loop over root["domain"]; then into the loop over
\* root["class"], or past it when the root has no class
DomainsStep(h, spec, loc) ==
  LET r == BuildDomains(EmptyDict, NodeChildren(CurrentRoot(loc), "domain"))
      l2 == [loc EXCEPT !.domains = r.d]
  IN IF NodeChildren(CurrentRoot(loc), "class") # <<>>
     THEN Outcome(h, spec, [l2 EXCEPT !.ci = 1], "class", r.err)
     ELSE Outcome(h, spec, AfterRoot(l2).loc, AfterRoot(l2).pc, r.err)

\* The head of the body of "for c_nd in root["class"]", down to
\* load_fields(c_nd, klass.fields, domains).
ClassStep(h, spec, loc) ==
  LET c_nd == NodeChildren(CurrentRoot(loc), "class")[loc.ci]
      nm == NodeAttr(c_nd, "name")
      cname == Pythonize(nm.val)
      primary == loc.ri = 1
      index == AttrInt(c_nd, "index")
      handler == NodeAttr(c_nd, "handler")
      h2 == Append(h, NewClass(cname, index.val, handler.val, GetDocs(c_nd)))
      added == ContainerAdd(spec.classes, h2, Len(h2))
      found == ContainerByName(spec.classes, cname)
      err1 == IF nm.err # NoError THEN nm.err
              ELSE IF primary
              THEN (IF index.err # NoError THEN index.err
                    ELSE IF handler.err # NoError THEN handler.err
                    ELSE added.err)
              ELSE found.err
      h3 == IF primary THEN h2 ELSE h
      spec3 == IF primary THEN [spec EXCEPT !.classes = added.c] ELSE spec
      klass == IF primary THEN Len(h2) ELSE found.val
      lf == LoadFields(h3, h3[klass].fields, c_nd, loc.domains)
      h4 == [lf.h EXCEPT ![klass].fields = lf.c]
      l4 == [loc EXCEPT !.klass = klass, !.added = <<>>]
  IN IF err1 # NoError
     THEN Outcome(IF primary /\ nm.err = NoError /\ index.err = NoError /\ handler.err = NoError
                  THEN h2 ELSE h, spec, loc, "method", err1)
     ELSE IF NodeChildren(c_nd, "method") # <<>>
     THEN Outcome(h4, spec3, [l4 EXCEPT !.mi = 1], "method", lf.err)
     ELSE Outcome(h4, spec3, l4, "resolve", lf.err)

\* [pythonize(nd["@name"]) for nd in m_nd["response"]]
ResponseNames(m_nd) ==
  LET rs == NodeChildren(m_nd, "response")
  IN IF \E i \in DOMAIN rs : ~NodeHasAttr(rs[i], "name")
     THEN [err |-> "Malformed", val |-> <<>>]
     ELSE [err |-> NoError, val |-> [i \in DOMAIN rs |-> Pythonize(rs[i].attrs["name"])]]

\* The body of "for m_nd in c_nd["method"]".
MethodStep(h, spec, loc) ==
  LET c_nd == NodeChildren(CurrentRoot(loc), "class")[loc.ci]
      m_nds == NodeChildren(c_nd, "method")
      m_nd == m_nds[loc.mi]
      nm == NodeAttr(m_nd, "name")
      mname == Pythonize(nm.val)
      primary == loc.ri = 1
      index == AttrInt(m_nd, "index")
      content == NodeGetBool(m_nd, "content")
      responses == ResponseNames(m_nd)
      synchronous == NodeGetBool(m_nd, "synchronous")
      h2 == Append(h, NewMethod(loc.klass, mname, index.val, content.val, responses.val,
                                synchronous.val, m_nd.text, GetDocs(m_nd)))
      added == ContainerAdd(h[loc.klass].methods, h2, Len(h2))
      found == ContainerByName(h[loc.klass].methods, mname)
      argerr == IF index.err # NoError THEN index.err
                ELSE IF content.err # NoError THEN content.err
                ELSE IF responses.err # NoError THEN responses.err
                ELSE synchronous.err
      err1 == IF nm.err # NoError THEN nm.err
              ELSE IF primary THEN (IF argerr # NoError THEN argerr ELSE added.err)
              ELSE found.err
      meth == IF primary THEN Len(h2) ELSE found.val
      h3 == IF primary THEN [h2 EXCEPT ![loc.klass].methods = added.c] ELSE h
      l3 == IF primary THEN [loc EXCEPT !.added = Append(loc.added, meth)] ELSE loc
      lf == LoadFields(h3, h3[meth].fields, m_nd, loc.domains)
      h4 == [lf.h EXCEPT ![meth].fields = lf.c]
  IN IF err1 # NoError
     THEN Outcome(IF primary /\ nm.err = NoError /\ argerr = NoError THEN h2 ELSE h,
                  spec, loc, "method", err1)
     ELSE IF loc.mi < Len(m_nds)
     THEN Outcome(h4, spec, [l3 EXCEPT !.mi = loc.mi + 1], "method", lf.err)
     ELSE Outcome(h4, spec, l3, "resolve", lf.err)

RECURSIVE MarkResponses(_, _)
\* for resp in m.responses: resp.response = True
MarkResponses(h, refs) ==
  IF refs = <<>> THEN h
  ELSE MarkResponses([h EXCEPT ![Head(refs)].response = TRUE], Tail(refs))

\* A slip of the resolution: a name that is no method of the class is dropped.
RECURSIVE ResolveAddedLenient(_, _, _)
ResolveAddedLenient(h, klass, ms) ==
  IF ms = <<>> THEN [h |-> h, err |-> NoError]
  ELSE
    LET m == Head(ms)
        known == SelectSeq(h[m].responses, LAMBDA r : HasKey(h[klass].methods.byname, r))
        refs == [i \in DOMAIN known |-> h[klass].methods.byname[known[i]]]
        h2 == [h EXCEPT ![m].responses = refs, ![m].resolved = TRUE]
    IN ResolveAddedLenient(MarkResponses(h2, refs), klass, Tail(ms))

\* A slip of the resolution: the methods named are not marked as responses.
RECURSIVE ResolveAddedNoMark(_, _, _)
ResolveAddedNoMark(h, klass, ms) ==
  IF ms = <<>> THEN [h |-> h, err |-> NoError]
  ELSE
    LET m == Head(ms)
        names == h[m].responses
        refs == [i \in DOMAIN names |-> h[klass].methods.byname[names[i]]]
        h2 == [h EXCEPT ![m].responses = refs, ![m].resolved = TRUE]
    IN IF \E i \in DOMAIN names : ~HasKey(h[klass].methods.byname, names[i])
       THEN [h |-> h, err |-> "NotFound"]
       ELSE ResolveAddedNoMark(h2, klass, Tail(ms))

\* A slip of the resolution: the method that names the responses is marked
\* as a response along with them (m.response = True).
RECURSIVE ResolveAddedMarksNamer(_, _, _)
ResolveAddedMarksNamer(h, klass, ms) ==
  IF ms = <<>> THEN [h |-> h, err |-> NoError]
  ELSE
    LET m == Head(ms)
        names == h[m].responses
        refs == [i \in DOMAIN names |-> h[klass].methods.byname[names[i]]]
        h2 == [h EXCEPT ![m].responses = refs, ![m].resolved = TRUE,
                        ![m].response = @ \/ names # <<>>]
    IN IF \E i \in DOMAIN names : ~HasKey(h[klass].methods.byname, names[i])
       THEN [h |-> h, err |-> "NotFound"]
       ELSE ResolveAddedMarksNamer(MarkResponses(h2, refs), klass, Tail(ms))

RECURSIVE ResolveAdded(_, _, _)
\* for m in added_methods:
\*   m.responses = [klass.methods.byname[r] for r in m.responses]; mark them
ResolveAdded(h, klass, ms) ==
  IF ms = <<>> THEN [h |-> h, err |-> NoError]
  ELSE
    LET m == Head(ms)
        names == h[m].responses
        refs == [i \in DOMAIN names |-> h[klass].methods.byname[names[i]]]
        h2 == [h EXCEPT ![m].responses = refs, ![m].resolved = TRUE]
    IN IF \E i \in DOMAIN names : ~HasKey(h[klass].methods.byname, names[i])
       THEN [h |-> h, err |-> "NotFound"]
       ELSE ResolveAdded(MarkResponses(h2, refs), klass, Tail(ms))

\* "resolve the responses", then on to the next class or past the last
ResolveStep(h, spec, loc) ==
  LET r == ResolveAdded(h, loc.klass, loc.added)
  IN IF loc.ci < Len(NodeChildren(CurrentRoot(loc), "class"))
     THEN Outcome(r.h, spec, [loc EXCEPT !.ci = loc.ci + 1, !.mi = 0], "class", r.err)
     ELSE Outcome(r.h, spec, AfterRoot(loc).loc, AfterRoot(loc).pc, r.err)

RECURSIVE DefineMethods(_, _, _)
\* methods[name] = m.define_method(name) for the pairs [m, name] of ps
DefineMethods(h, ps, stubs) ==
  IF ps = <<>> THEN [h |-> h, stubs |-> stubs, err |-> NoError]
  ELSE LET d == DefineMethod(h, Head(ps).m, Head(ps).name)
       IN IF d.err # NoError THEN [h |-> d.h, stubs |-> stubs, err |-> d.err]
          ELSE DefineMethods(d.h, Tail(ps), DictPut(stubs, Head(ps).name, d.stub))

\* Class.define_class(name): a function per method, under the method's name
ClassDefineClass(h, c) ==
  DefineMethods(h, [k \in DOMAIN h[c].methods.items |->
                      [m |-> h[c].methods.items[k], name |-> h[h[c].methods.items[k]].name]],
                EmptyDict)

RECURSIVE DefineModule(_, _, _)
\* Spec.define_module: setattr(module, c.name, c.define_class(c.name)) per class
DefineModule(h, cs, module) ==
  IF cs = <<>> THEN [h |-> h, module |-> module, err |-> NoError]
  ELSE LET d == ClassDefineClass(h, Head(cs))
       IN IF d.err # NoError THEN [h |-> d.h, module |-> module, err |-> d.err]
          ELSE DefineModule(d.h, Tail(cs), DictPut(module, h[Head(cs)].name, d.stubs))

RECURSIVE QualifiedMethods(_, _)
\* the pairs of Spec.define_class: every method m of every class, under
\* m.klass.name + "_" + m.name
QualifiedMethods(h, cs) ==
  IF cs = <<>> THEN <<>>
  ELSE [k \in DOMAIN h[Head(cs)].methods.items |->
          LET m == h[Head(cs)].methods.items[k]
          IN [m |-> m, name |-> h[h[m].klass].name \o <<"_">> \o h[m].name]]
       \o QualifiedMethods(h, Tail(cs))

\* A slip of load: what post_load raises is swallowed, and load goes on to
\* return the Spec as post_load left it.
PostLoadStepSwallows(h, spec, loc) ==
  LET mod == DefineModule(h, spec.classes.items, EmptyDict)
      kls == DefineMethods(mod.h, QualifiedMethods(mod.h, spec.classes.items), EmptyDict)
  IN IF mod.err # NoError THEN Outcome(mod.h, spec, loc, "return", NoError)
     ELSE IF kls.err # NoError
     THEN Outcome(kls.h, [spec EXCEPT !.module = mod.module], loc, "return", NoError)
     ELSE Outcome(kls.h, [spec EXCEPT !.module = mod.module, !.klass = kls.stubs,
                                      !.loaded = TRUE],
                  loc, "return", NoError)

\* Spec.post_load
PostLoadStep(h, spec, loc) ==
  LET mod == DefineModule(h, spec.classes.items, EmptyDict)
      kls == DefineMethods(mod.h, QualifiedMethods(mod.h, spec.classes.items), EmptyDict)
  IN IF mod.err # NoError THEN Outcome(mod.h, spec, loc, "return", mod.err)
     ELSE IF kls.err # NoError
     THEN Outcome(kls.h, [spec EXCEPT !.module = mod.module], loc, "return", kls.err)
     ELSE Outcome(kls.h, [spec EXCEPT !.module = mod.module, !.klass = kls.stubs,
                                      !.loaded = TRUE],
                  loc, "return", NoError)


(***************************************************************************)
(* The states of the parts that a specification leaves alone.             *)
(***************************************************************************)
NoCall == [item |-> NullRef, before |-> EmptyContainer, err |-> NoError]

RegIdle ==
  /\ rheap = <<>>
  /\ reg = EmptyContainer
  /\ radded = <<>>
  /\ rcall = NoCall

NoArgsCall ==
  [called |-> FALSE, args |-> <<>>, kwargs |-> EmptyDict, out |-> [err |-> NoError, val |-> <<>>]]
ArgIdle == aheap = <<>> /\ afields = EmptyContainer /\ acall = NoArgsCall
AliasIdle == wdomains = EmptyDict /\ wtype = None /\ wpc = "idle"
NoSpec == NewSpec(0, 0, None)
NoLocals == [roots |-> <<>>, ri |-> 0, ci |-> 0, mi |-> 0, domains |-> EmptyDict,
             klass |-> NullRef, added |-> <<>>]
NoConsumerCall == [op |-> "none", arg |-> NullRef, name |-> <<>>, out |-> NoArgsCall.out]
LoadIdle ==
  /\ input = [primary |-> RootNode(<<>>), errata |-> <<>>]
  /\ lpc = "idle"
  /\ heap = <<>>
  /\ lspec = NoSpec
  /\ lloc = NoLocals
  /\ lerr = NoError
  /\ published = NoSpec
  /\ ccall = NoConsumerCall

NoStubDefined ==
  [called |-> FALSE, err |-> NoError,
   stub |-> [method |-> NullRef, name |-> <<>>, params |-> <<>>, content |-> FALSE]]
NoStubCall ==
  [called |-> FALSE, args |-> <<>>, kwargs |-> EmptyDict, out |-> [err |-> NoError, val |-> <<>>]]
StubIdle == sheap = <<>> /\ sstub = NoStubDefined /\ scall = NoStubCall
ReloadIdle == tfirst = NoSpec /\ tpc = "idle"
NoNodeCall == [op |-> "none", nd |-> NullRef, key |-> <<>>, out |-> NoArgsCall.out]
TreeIdle == bnodes = <<>> /\ bnode = NullRef /\ bopen = <<>> /\ bcall = NoNodeCall

(***************************************************************************)
(* SpecRegistry: one SpecContainer under every sequence of add calls.      *)
(***************************************************************************)
MaxRegObjs == 3
MaxRegId == 2
RegNames == {<<"a">>, <<"b">>, <<"a", "b">>}
RegIds == 1..MaxRegId

\* item = <a new object>; container.add(item)
RegistryAdd ==
  /\ Len(rheap) < MaxRegObjs
  /\ \E name \in RegNames, id \in RegIds :
       LET h == Append(rheap, [name |-> name, id |-> id])
           item == Len(h)
           r == ContainerAdd(reg, h, item)
       IN /\ rheap' = h
          /\ reg' = r.c
          /\ radded' = IF r.err = NoError THEN Append(radded, item) ELSE radded
          /\ rcall' = [item |-> item, before |-> reg, err |-> r.err]
  /\ UNCHANGED <<argVars, aliasVars, loadVars, stubVars, reloadVars, treeVars>>

\* container.add(item) for an object that was passed to add before
RegistryAddAgain ==
  /\ \E item \in DOMAIN rheap :
       LET r == ContainerAdd(reg, rheap, item)
       IN /\ reg' = r.c
          /\ radded' = IF r.err = NoError THEN Append(radded, item) ELSE radded
          /\ rcall' = [item |-> item, before |-> reg, err |-> r.err]
  /\ UNCHANGED rheap
  /\ UNCHANGED <<argVars, aliasVars, loadVars, stubVars, reloadVars, treeVars>>

InitRegistry == RegIdle /\ ArgIdle /\ AliasIdle /\ LoadIdle /\ StubIdle /\ ReloadIdle /\ TreeIdle
NextRegistry == RegistryAdd \/ RegistryAddAgain
SpecRegistry == InitRegistry /\ [][NextRegistry]_vars

(***************************************************************************)
(* Claims about SpecContainer.                                             *)
(***************************************************************************)
RegNameOf(k) == rheap[reg.items[k]].name
RegIdOf(k) == rheap[reg.items[k]].id

\* the last add was handed an item whose name or id an entry already had
RegLastCollides ==
  /\ rcall.item # NullRef
  /\ \E k \in DOMAIN rcall.before.items :
        \/ rheap[rcall.before.items[k]].name = rheap[rcall.item].name
        \/ rheap[rcall.before.items[k]].id = rheap[rcall.item].id

\* C4: after any sequence of add calls no two entries of the registry share
\* a name and no two share an id, and an add whose item.name or item.id is
\* already present fails with DuplicateIdentity.
C4_UniqueNameAndId ==
  /\ \A i, j \in DOMAIN reg.items :
        i # j => RegNameOf(i) # RegNameOf(j) /\ RegIdOf(i) # RegIdOf(j)
  /\ RegLastCollides => rcall.err = "DuplicateIdentity"

\* C4 witness: an add was refused for its id alone (its name was new), with
\* two entries in the registry.
C4_Witness ==
  /\ rcall.item # NullRef
  /\ rcall.err = "DuplicateIdentity"
  /\ ~HasKey(rcall.before.byname, rheap[rcall.item].name)
  /\ HasKey(rcall.before.byid, rheap[rcall.item].id)
  /\ Len(reg.items) = 2

\* C5: iteration yields exactly the successfully added items in the order
\* they were added, the size is the number of successful adds, index(item)
\* is the 0-based position of item in that order, the name and id lookups
\* return the entry stored there, and index, byname and byid fail with
\* NotFound for an item, name or id that was never successfully added.
C5_OrderAndLookup ==
  /\ ContainerIter(reg) = radded
  /\ ContainerLen(reg) = Len(radded)
  /\ \A k \in DOMAIN radded :
        /\ ContainerIndex(reg, radded[k]) = [err |-> NoError, val |-> k - 1]
        /\ ContainerByName(reg, rheap[radded[k]].name) = [err |-> NoError, val |-> radded[k]]
        /\ ContainerById(reg, rheap[radded[k]].id) = [err |-> NoError, val |-> radded[k]]
  /\ \A item \in (DOMAIN rheap) \ Range(radded) :
        ContainerIndex(reg, item).err = "NotFound"
  /\ \A name \in RegNames \ {rheap[radded[k]].name : k \in DOMAIN radded} :
        ContainerByName(reg, name).err = "NotFound"
  /\ \A id \in RegIds \ {rheap[radded[k]].id : k \in DOMAIN radded} :
        ContainerById(reg, id).err = "NotFound"

\* C5 witness: two items were added, one add was refused, and a name and an
\* id are still unused.
C5_Witness ==
  /\ Len(radded) = 2
  /\ Len(rheap) > Len(radded)
  /\ RegNames \ DOMAIN reg.byname # {}
  /\ rheap[radded[1]].id > rheap[radded[2]].id

(***************************************************************************)
(* SpecArguments: Method.arguments on every method with at most MaxArgFields    *)
(* fields, under every call with at most MaxArgFields + 1 positional and        *)
(* MaxNamed named values.                                                  *)
(***************************************************************************)
MaxArgFields == 3
MaxNamed == 2
ArgFieldNames == {<<"x">>, <<"y">>, <<"z">>}
ArgKeys == ArgFieldNames \cup {<<"w">>}
ArgTypes == {<<"b", "i", "t">>, <<"l", "o", "n", "g">>}
ArgValues == {"0", "7"}

\* all sequences over S of length at most n
SeqsUpTo(S, n) == UNION {[1..k -> S] : k \in 0..n}

\* the ids n fields can carry: positions among the children of a tag, rising
\* (one document) or not (fields added by an overlay)
ArgIdShapes(n) ==
  {[k \in 1..n |-> k - 1], [k \in 1..n |-> k], [k \in 1..n |-> n - k]}

RECURSIVE AddAll(_, _, _)
\* l.add(field) for the fields at places k.. of h, as load_fields does
AddAll(c, h, k) ==
  IF k > Len(h) THEN c ELSE AddAll(ContainerAdd(c, h, k).c, h, k + 1)

ArgMethods ==
  {[k \in 1..Len(names) |-> [name |-> names[k], id |-> ids[k], type |-> types[k]]] :
     <<names, ids, types>> \in
       UNION {{n \in [1..k -> ArgFieldNames] : \A i, j \in 1..k : i # j => n[i] # n[j]}
                \X ArgIdShapes(k) \X [1..k -> ArgTypes] : k \in 0..MaxArgFields}}

ArgKwargs ==
  UNION {[K -> ArgValues] : K \in {K \in SUBSET ArgKeys : Cardinality(K) <= MaxNamed}}

\* A slip of Method.arguments: the named values taken are popped from the
\* byname of self.fields instead of from the call's own kwargs.
ArgumentsFieldsPopped(h, fields, args, kwargs) ==
  LET taken == {h[fields.items[k]].name : k \in {j \in DOMAIN fields.items : j > Len(args)}}
                 \cap DOMAIN kwargs
  IN [fields EXCEPT !.byname = [n \in DOMAIN fields.byname \ taken |-> fields.byname[n]]]

\* self.fields after Method.arguments(*args, **kwargs): the method reads
\* self.fields and writes only its locals, result and the dict kwargs that
\* the call made for it
ArgumentsFields(h, fields, args, kwargs) == fields

\* method.arguments(*args, **kwargs), called while no call is in progress
ArgumentsCall ==
  /\ acall = NoArgsCall
  /\ \E args \in SeqsUpTo(ArgValues, MaxArgFields + 1), kwargs \in ArgKwargs :
       /\ \E out \in Arguments(aheap, afields, args, kwargs) :
            acall' = [called |-> TRUE, args |-> args, kwargs |-> kwargs, out |-> out]
       /\ afields' = ArgumentsFields(aheap, afields, args, kwargs)
  /\ UNCHANGED aheap
  /\ UNCHANGED <<regVars, aliasVars, loadVars, stubVars, reloadVars, treeVars>>

\* the caller takes the tuple, or catches the TypeError
ArgumentsReturn ==
  /\ acall # NoArgsCall
  /\ acall' = NoArgsCall
  /\ UNCHANGED <<aheap, afields>>
  /\ UNCHANGED <<regVars, aliasVars, loadVars, stubVars, reloadVars, treeVars>>

InitArguments ==
  /\ aheap \in ArgMethods
  /\ afields = AddAll(EmptyContainer, aheap, 1)
  /\ acall = NoArgsCall
  /\ RegIdle /\ AliasIdle /\ LoadIdle /\ StubIdle /\ ReloadIdle /\ TreeIdle
NextArguments == ArgumentsCall \/ ArgumentsReturn
SpecArguments == InitArguments /\ [][NextArguments]_vars

(***************************************************************************)
(* Claims about Method.arguments.  The fields in insertion order are the   *)
(* places 1..Len(aheap) of aheap.                                          *)
(***************************************************************************)
ArgCount == Len(acall.args) + Cardinality(DOMAIN acall.kwargs)
\* the place (1-based) of the field called key, 0 when no field is
ArgFieldPlace(key) ==
  IF \E i \in DOMAIN aheap : aheap[i].name = key
  THEN CHOOSE i \in DOMAIN aheap : aheap[i].name = key
  ELSE 0
\* key names a field that no positional value covers
ArgKeyFree(key) == ArgFieldPlace(key) > Len(acall.args)
\* key names a field that a positional value covers
ArgKeyCovered(key) == ArgFieldPlace(key) \in 1..Len(acall.args)
ArgKeyUnknown(key) == ArgFieldPlace(key) = 0

\* C1: when len(positional) + len(named) does not exceed the field count and
\* every named key is a field not covered positionally, arguments returns a
\* tuple with one element per field, the i-th being positional[i] if there
\* is one, else the named value of the i-th field if given, else the default
\* of the i-th field's type.
C1_ArgumentsTuple ==
  (/\ acall.called
   /\ ArgCount <= Len(aheap)
   /\ \A key \in DOMAIN acall.kwargs : ArgKeyFree(key))
  => /\ acall.out.err = NoError
     /\ Len(acall.out.val) = Len(aheap)
     /\ \A i \in DOMAIN aheap :
           acall.out.val[i] =
             IF i <= Len(acall.args) THEN acall.args[i]
             ELSE IF aheap[i].name \in DOMAIN acall.kwargs THEN acall.kwargs[aheap[i].name]
             ELSE DEFAULTS[aheap[i].type]

\* C1 witness: one call returned a tuple that holds a positional value, a
\* default and a named value, in this order, for fields whose ids are not
\* their positions.
C1_Witness ==
  /\ acall.called
  /\ acall.out.err = NoError
  /\ Len(aheap) = 3
  /\ Len(acall.args) = 1
  /\ DOMAIN acall.kwargs = {aheap[3].name}
  /\ aheap[1].id = 2
  /\ acall.out.val = <<"7", "False", "7">>

\* C2: when the number of values does not exceed the field count, a named
\* value left unconsumed is an error and no tuple is returned: the error is
\* MultipleValues when the name is that of a field filled positionally and
\* UnknownArgument when the name matches no field (the error raised is that
\* of one of the names left).
C2_LeftoverNamed ==
  LET left == {key \in DOMAIN acall.kwargs : ~ArgKeyFree(key)}
  IN (acall.called /\ ArgCount <= Len(aheap) /\ left # {})
     => /\ acall.out.val = <<>>
        /\ acall.out.err \in
             {IF ArgKeyCovered(key) THEN "MultipleValues" ELSE "UnknownArgument" : key \in left}

\* C2 witness: a name of a positionally filled field and a name of no field
\* were both left, and MultipleValues was raised.
C2_Witness ==
  /\ acall.called
  /\ ArgCount <= Len(aheap)
  /\ \E k1, k2 \in DOMAIN acall.kwargs : ArgKeyCovered(k1) /\ ArgKeyUnknown(k2)
  /\ acall.out.err = "MultipleValues"

\* C3: arguments fails with TooManyArguments whenever len(positional) +
\* len(named) exceeds the field count, for a method without fields too and
\* whatever the named keys are; the check comes before those of
\* MultipleValues and UnknownArgument.
C3_TooManyArguments ==
  (acall.called /\ ArgCount > Len(aheap))
  => acall.out = ArgsError("TooManyArguments")

\* C3 witness: too many values were given, the positional ones alone were
\* not too many, and the named ones held a positionally covered field and
\* an unknown name.
C3_Witness ==
  /\ acall.called
  /\ ArgCount > Len(aheap)
  /\ Len(acall.args) <= Len(aheap)
  /\ \E k1, k2 \in DOMAIN acall.kwargs : ArgKeyCovered(k1) /\ ArgKeyUnknown(k2)
  /\ acall.out.err = "TooManyArguments"

\* C3 witness for a method without fields is C3_WitnessNoFields.
C3_WitnessNoFields ==
  /\ acall.called
  /\ Len(aheap) = 0
  /\ DOMAIN acall.kwargs # {}
  /\ acall.out.err = "TooManyArguments"

(***************************************************************************)
(* SpecAlias: the while loop of load_fields that resolves a declared type  *)
(* through the domains dict, one test of the loop condition per step.      *)
(* load is sequential code that nothing suspends, so a step that is        *)
(* enabled is taken: weak fairness of both steps.                          *)
(***************************************************************************)
BaseTypes == {<<"b", "i", "t">>, <<"l", "o", "n", "g">>}
AliasNames == {<<"d", "1">>, <<"d", "2">>, <<"d", "3">>}
TypeNames == BaseTypes \cup AliasNames
\* every dict a document's domain tags can build: any name, a base type's
\* too, may be declared, with any type
DomainMaps == UNION {[K -> TypeNames] : K \in SUBSET TypeNames}

\* while ...: type = domains[type]
AliasStep ==
  /\ wpc = "loop"
  /\ AliasLoopCondition(wdomains, wtype)
  /\ wtype' = wdomains[wtype]
  /\ UNCHANGED <<wdomains, wpc>>
  /\ UNCHANGED <<regVars, argVars, loadVars, stubVars, reloadVars, treeVars>>

\* the loop condition is false: control reaches l.add(Field(...))
AliasExit ==
  /\ wpc = "loop"
  /\ ~AliasLoopCondition(wdomains, wtype)
  /\ wpc' = "done"
  /\ UNCHANGED <<wdomains, wtype>>
  /\ UNCHANGED <<regVars, argVars, loadVars, stubVars, reloadVars, treeVars>>

InitAlias ==
  /\ wdomains \in DomainMaps
  /\ wtype \in TypeNames
  /\ wpc = "loop"
  /\ RegIdle /\ ArgIdle /\ LoadIdle /\ StubIdle /\ ReloadIdle /\ TreeIdle
NextAlias == AliasStep \/ AliasExit
SpecAlias == InitAlias /\ [][NextAlias]_vars /\ WF_vars(AliasStep) /\ WF_vars(AliasExit)

\* C9: resolving a declared type through the domains dict terminates for
\* every alias map, one in which an alias maps to itself or in which
\* aliases form a cycle of length two or more included.
C9_AliasResolutionTerminates == <>(wpc = "done")

\* The resolution does terminate when the loop, followed from the declared
\* type, never meets a cycle of two or more aliases.
C9_TerminatesWithoutCycle == ~ResolveType(wdomains, wtype).hangs => <>(wpc = "done")

(***************************************************************************)
(* Spec: load(specfile, *errata) on the documents of input, then the       *)
(* consumers of the Spec it returns.                                       *)
(***************************************************************************)
\* what a stretch of load leaves: its results, and control at its end, at
\* the raise ("failed": the exception leaves load, spec is dropped) or in
\* the endless loop of load_fields ("hung")
Commit(r) ==
  /\ heap' = r.h
  /\ lspec' = r.spec
  /\ lloc' = r.loc
  /\ lerr' = IF r.err = "Hang" THEN NoError ELSE r.err
  /\ lpc' = IF r.err = NoError THEN r.pc ELSE IF r.err = "Hang" THEN "hung" ELSE "failed"
  /\ UNCHANGED <<input, published, ccall>>
  /\ UNCHANGED <<regVars, argVars, aliasVars, stubVars, reloadVars, treeVars>>

LoadStart == lpc = "start" /\ Commit(StartStep(heap, lspec, lloc, input))
LoadRoots == lpc = "roots" /\ Commit(RootsStep(heap, lspec, lloc, input))
LoadConstants == lpc = "constants" /\ Commit(ConstantsStep(heap, lspec, lloc))
LoadDomains == lpc = "domains" /\ Commit(DomainsStep(heap, lspec, lloc))
LoadClass == lpc = "class" /\ Commit(ClassStep(heap, lspec, lloc))
LoadMethod == lpc = "method" /\ Commit(MethodStep(heap, lspec, lloc))
LoadResolve == lpc = "resolve" /\ Commit(ResolveStep(heap, lspec, lloc))
LoadPostLoad == lpc = "post_load" /\ Commit(PostLoadStep(heap, lspec, lloc))

\* return spec
LoadReturn ==
  /\ lpc = "return"
  /\ lpc' = "done"
  /\ published' = lspec
  /\ UNCHANGED <<input, heap, lspec, lloc, lerr, ccall>>
  /\ UNCHANGED <<regVars, argVars, aliasVars, stubVars, reloadVars, treeVars>>

\* the Method objects of the published model
PublishedMethods ==
  UNION {Range(heap[c].methods.items) : c \in Range(published.classes.items)}

\* a consumer calls m.arguments() for a method m of the published model,
\* leaving every field out
ConsumerArguments ==
  /\ lpc = "done"
  /\ ccall = NoConsumerCall
  /\ \E m \in PublishedMethods :
       \E out \in Arguments(heap, heap[m].fields, <<>>, EmptyDict) :
          ccall' = [op |-> "arguments", arg |-> m, name |-> <<>>, out |-> out]
  /\ UNCHANGED <<input, lpc, heap, lspec, lloc, lerr, published>>
  /\ UNCHANGED <<regVars, argVars, aliasVars, stubVars, reloadVars, treeVars>>

\* name.startswith(prefix)
StartsWith(name, prefix) ==
  /\ Len(prefix) <= Len(name)
  /\ SubSeq(name, 1, Len(prefix)) = prefix

RECURSIVE SpecMethodLoop(_, _, _, _)
\* the loop of Spec.method over the classes: name[clen] is read whenever
\* the name starts with the class's name, and is out of range when the name
\* is the class's name; a method found goes into the cache self.methods
SpecMethodLoop(h, cs, methods, name) ==
  IF cs = <<>> THEN [methods |-> methods, err |-> NoError]
  ELSE LET cls == h[Head(cs)]
           clen == Len(cls.name)
           end == SubSeq(name, clen + 2, Len(name))
       IN IF ~StartsWith(name, cls.name) THEN SpecMethodLoop(h, Tail(cs), methods, name)
          ELSE IF Len(name) = clen THEN [methods |-> methods, err |-> "IndexError"]
          ELSE IF name[clen + 1] = "_" /\ HasKey(cls.methods.byname, end)
          THEN SpecMethodLoop(h, Tail(cs), DictPut(methods, name, cls.methods.byname[end]), name)
          ELSE SpecMethodLoop(h, Tail(cs), methods, name)

\* Spec.method(name): the Spec after the call, and the Method or None
SpecMethod(h, spec, name) ==
  LET r == IF HasKey(spec.methods, name) THEN [methods |-> spec.methods, err |-> NoError]
           ELSE SpecMethodLoop(h, spec.classes.items, spec.methods, name)
  IN [spec |-> [spec EXCEPT !.methods = r.methods],
      err  |-> r.err,
      val  |-> IF r.err = NoError /\ HasKey(r.methods, name) THEN <<r.methods[name]>> ELSE <<>>]

\* the qualified names a consumer looks up: a method, a class on its own,
\* a method no class has, and a class with no method behind it
ConsumerNames ==
  {<<"b", "a", "s", "i", "c", "_", "g", "e", "t">>,
   <<"b", "a", "s", "i", "c">>,
   <<"b", "a", "s", "i", "c", "_", "n", "a", "c", "k">>,
   <<"b", "a", "s", "i", "c", "_">>}

\* a consumer calls spec.method(name) on the published model
ConsumerMethod ==
  /\ lpc = "done"
  /\ ccall = NoConsumerCall
  /\ \E name \in ConsumerNames :
       LET r == SpecMethod(heap, published, name)
       IN /\ published' = r.spec
          /\ ccall' = [op |-> "method", arg |-> NullRef, name |-> name,
                       out |-> [err |-> r.err, val |-> r.val]]
  /\ UNCHANGED <<input, lpc, heap, lspec, lloc, lerr>>
  /\ UNCHANGED <<regVars, argVars, aliasVars, stubVars, reloadVars, treeVars>>

\* a consumer calls m.define_method(m.name) for a method m of the published
\* model, which asks m.docstring() and stores it in m.__doc__
ConsumerDefine ==
  /\ lpc = "done"
  /\ ccall = NoConsumerCall
  /\ \E m \in PublishedMethods :
       LET d == DefineMethod(heap, m, heap[m].name)
       IN /\ heap' = d.h
          /\ ccall' = [op |-> "define_method", arg |-> m, name |-> heap[m].name,
                       out |-> [err |-> d.err, val |-> <<d.stub.name>>]]
  /\ UNCHANGED <<input, lpc, lspec, lloc, lerr, published>>
  /\ UNCHANGED <<regVars, argVars, aliasVars, stubVars, reloadVars, treeVars>>

\* the consumer takes the result
ConsumerReturn ==
  /\ ccall # NoConsumerCall
  /\ ccall' = NoConsumerCall
  /\ UNCHANGED <<input, lpc, heap, lspec, lloc, lerr, published>>
  /\ UNCHANGED <<regVars, argVars, aliasVars, stubVars, reloadVars, treeVars>>

Next ==
  \/ LoadStart \/ LoadRoots \/ LoadConstants \/ LoadDomains \/ LoadClass
  \/ LoadMethod \/ LoadResolve \/ LoadPostLoad \/ LoadReturn
  \/ ConsumerArguments \/ ConsumerMethod \/ ConsumerDefine \/ ConsumerReturn

(***************************************************************************)
(* The documents load is run on.  A document is the Node tree parse()      *)
(* returns for it.  They come in families, each built around one part of   *)
(* load: the methods and responses of a class, the domains and the types   *)
(* of fields, an overlay on a primary document, and ill-formed or          *)
(* colliding declarations.                                                 *)
(***************************************************************************)
MaxResponses == 2
MaxDomains == 2
MaxOverlayChildren == 2

DocTag(text) == Tag("doc", EmptyDict, text, <<>>)
ResponseTag(name) == Tag("response", [name |-> name], None, <<>>)
DomainTag(name, type) == Tag("domain", [name |-> name, type |-> type], None, <<>>)
ConstantTag(name, value) == Tag("constant", [name |-> name, value |-> value], None, <<>>)
\* a field tag that declares its type with the attribute type
FieldTag(name, type) == Tag("field", [name |-> name, type |-> type], None, <<>>)
\* a field tag whose attributes, its name apart, are decl
FieldTagWith(name, decl) == Tag("field", [name |-> name] @@ decl, None, <<>>)
MethodTag(name, index, children) ==
  Tag("method", [name |-> name, index |-> index], "text", children)
ClassTag(name, index, children) ==
  Tag("class", [name |-> name, index |-> index, handler |-> <<"c", "h", "a", "n", "n", "e", "l">>], None, children)
AmqpTag(children) == Tag("amqp", [major |-> <<"8">>, minor |-> <<"0">>], None, children)
Document(children) == RootNode(<<AmqpTag(children)>>)
Primary(children) == [primary |-> Document(children), errata |-> <<>>]


\* Family A: one class with the method get, or with get and get-ok, each
\* naming up to MaxResponses responses; a response may name the method
\* itself, a method declared later, or no method at all.
ResponseLists ==
  SeqsUpTo({<<"g", "e", "t">>, <<"g", "e", "t", "-", "o", "k">>, <<"n", "a", "c", "k">>}, MaxResponses)
ResponseMethodTag(name, index, rs) ==
  MethodTag(name, index, [k \in DOMAIN rs |-> ResponseTag(rs[k])])
ResponseDocuments ==
  {Primary(<<ClassTag(<<"b", "a", "s", "i", "c">>, <<"6", "0">>,
                      <<ResponseMethodTag(<<"g", "e", "t">>, <<"1">>, rs)>>)>>) :
     rs \in ResponseLists}
  \cup
  {Primary(<<ClassTag(<<"b", "a", "s", "i", "c">>, <<"6", "0">>,
                      <<ResponseMethodTag(<<"g", "e", "t">>, <<"1">>, r1),
                        ResponseMethodTag(<<"g", "e", "t", "-", "o", "k">>, <<"2">>, r2)>>)>>) :
     <<r1, r2>> \in ResponseLists \X ResponseLists}

\* Family B: up to MaxDomains domain tags, and one method whose first field
\* declares its type in one of the ways of FieldDecls.
AliasDomainTags ==
  {DomainTag(n, t) : <<n, t>> \in {<<"d", "1">>, <<"d", "2">>, <<"b", "i", "t">>} \X {<<"d", "1">>, <<"d", "2">>, <<"b", "i", "t">>, <<"u">>}}
FieldDecls ==
  {[domain |-> <<"d", "1">>], [domain |-> <<"d", "2">>], [type |-> <<"d", "1">>], [type |-> <<"b", "i", "t">>],
   [type |-> <<"u">>], [domain |-> <<"d", "1">>, type |-> <<"l", "o", "n", "g">>], EmptyDict}
AliasDocuments ==
  {Primary(ds \o <<ClassTag(<<"b", "a", "s", "i", "c">>, <<"6", "0">>,
                            <<MethodTag(<<"g", "e", "t">>, <<"1">>,
                                        <<FieldTagWith(<<"x">>, decl), FieldTag(<<"y">>, <<"l", "o", "n", "g">>)>>)>>)>>) :
     <<ds, decl>> \in SeqsUpTo(AliasDomainTags, MaxDomains) \X FieldDecls}

\* Family C: a primary document with one class, a class field and one
\* method, and one overlay that names a class and a method and gives them
\* children of its own; either document may declare the domain d1.
PrimaryChildren == SeqsUpTo({DocTag("text"), FieldTag(<<"x">>, <<"l", "o", "n", "g">>), FieldTag(<<"y">>, <<"d", "1">>)}, 2)
OverlayChildren ==
  SeqsUpTo({DocTag("text"), FieldTag(<<"z">>, <<"b", "i", "t">>), FieldTag(<<"x">>, <<"b", "i", "t">>),
            FieldTag(<<"w">>, <<"d", "1">>)}, MaxOverlayChildren)
OverlayTargets ==
  {<<<<"b", "a", "s", "i", "c">>, <<"g", "e", "t">>>>, <<<<"b", "a", "s", "i", "c">>, <<"n", "a", "c", "k">>>>, <<<<"n", "a", "c", "k">>, <<"g", "e", "t">>>>}
OverlayDomains == {<<>>, <<DomainTag(<<"d", "1">>, <<"s", "h", "o", "r", "t", "s", "t", "r">>)>>}
OverlayOf(pdoms, pkids, edoms, target, ckids, mkids) ==
  [primary |-> Document(pdoms \o <<ClassTag(<<"b", "a", "s", "i", "c">>, <<"6", "0">>,
                                             <<FieldTag(<<"v">>, <<"l", "o", "n", "g">>),
                                               MethodTag(<<"g", "e", "t">>, <<"1">>, pkids)>>)>>),
   errata |-> <<Document(edoms \o <<ClassTag(target[1], <<"6", "0">>,
                                             ckids \o <<MethodTag(target[2], <<"1">>, mkids)>>)>>)>>]
OverlayDocuments ==
  {OverlayOf(pdoms, pkids, edoms, <<<<"b", "a", "s", "i", "c">>, <<"g", "e", "t">>>>, <<>>, mkids) :
     <<pdoms, pkids, edoms, mkids>> \in
        {<<>>, <<DomainTag(<<"d", "1">>, <<"b", "i", "t">>)>>} \X PrimaryChildren \X OverlayDomains \X OverlayChildren}
  \cup
  {OverlayOf(<<>>, <<FieldTag(<<"x">>, <<"l", "o", "n", "g">>)>>, <<>>, target, ckids, <<FieldTag(<<"z">>, <<"b", "i", "t">>)>>) :
     <<target, ckids>> \in OverlayTargets \X OverlayChildren}

\* Family D: ill-formed and colliding declarations, one at a time: the
\* root's attributes, constants in the primary document and in an overlay,
\* two classes, attributes of a class and of a method, and what post_load
\* cannot make a function of.
ConstantTags ==
  {ConstantTag(n, v) : <<n, v>> \in {<<"a", " ", "b">>, <<"a", "-", "b">>, <<"c">>}
                                    \X {<<"1">>, <<"x">>}}
  \cup {Tag("constant", [value |-> <<"1">>], None, <<>>)}
PlainClass(name, index) ==
  ClassTag(name, index, <<MethodTag(<<"g", "e", "t">>, <<"1">>, <<FieldTag(<<"x">>, <<"l", "o", "n", "g">>)>>)>>)
TroubleMethodTags ==
  {MethodTag(<<"g", "e", "t">>, <<"1">>, <<>>),
   MethodTag(<<"g", "l", "o", "b", "a", "l">>, <<"1">>, <<FieldTag(<<"r", "e", "t", "u", "r", "n">>, <<"b", "i", "t">>)>>),
   MethodTag(<<"g", "e", "t">>, <<"x">>, <<>>),
   Tag("method", [index |-> <<"1">>], "text", <<>>),
   Tag("method", [name |-> <<"g", "e", "t">>, index |-> <<"1">>], None, <<>>),
   Tag("method", [name |-> <<"g", "e", "t">>, index |-> <<"1">>, content |-> <<"1">>], "text",
       <<FieldTag(<<"x">>, <<"l", "o", "n", "g">>)>>),
   Tag("method", [name |-> <<"g", "e", "t">>, index |-> <<"1">>, content |-> <<"1">>], "text",
       <<FieldTag(<<"c", "o", "n", "t", "e", "n", "t">>, <<"l", "o", "n", "g">>)>>),
   Tag("method", [name |-> <<"g", "e", "t">>, index |-> <<"1">>, content |-> <<"t", "r", "u", "e">>], "text", <<>>),
   Tag("method", [name |-> <<"g", "e", "t">>, index |-> <<"1">>, synchronous |-> <<"0">>], "text",
       <<DocTag(None)>>),
   MethodTag(<<"g", "e", "t">>, <<"1">>, <<Tag("response", EmptyDict, None, <<>>)>>),
   MethodTag(<<"g", "e", "t">>, <<"1">>, <<Tag("field", [type |-> <<"b", "i", "t">>], None, <<>>)>>),
   MethodTag(<<"g", "e", "t">>, <<"1">>, <<FieldTag(<<"x">>, <<"b", "i", "t">>), DocTag("text"), FieldTag(<<"x">>, <<"l", "o", "n", "g">>)>>),
   MethodTag(<<"g", "e", "t">>, <<"1">>, <<Tag("field", [name |-> <<"x">>, type |-> <<"b", "i", "t">>], None,
                                   <<DocTag(None)>>)>>)}
TroubleDocuments ==
  {[primary |-> RootNode(<<>>), errata |-> <<>>],
   [primary |-> Document(<<>>), errata |-> <<RootNode(<<>>)>>],
   [primary |-> Document(<<>>), errata |-> <<Document(<<>>), Document(<<>>)>>],
   [primary |-> RootNode(<<Tag("amqp", [minor |-> <<"0">>], None, <<>>)>>), errata |-> <<>>],
   [primary |-> RootNode(<<Tag("amqp", [major |-> <<"8">>, minor |-> <<"x">>], None, <<>>)>>),
    errata |-> <<>>],
   Primary(<<Tag("domain", [name |-> <<"d", "1">>], None, <<>>)>>),
   Primary(<<Tag("class", [name |-> <<"b", "a", "s", "i", "c">>, index |-> <<"1">>], None, <<>>)>>),
   Primary(<<Tag("class", [index |-> <<"1">>, handler |-> <<"c", "h", "a", "n", "n", "e", "l">>], None, <<>>)>>)}
  \cup
  {[primary |-> Document(cs), errata |-> <<Document(es)>>] :
     <<cs, es>> \in SeqsUpTo(ConstantTags, 2) \X SeqsUpTo(ConstantTags, 1)}
  \cup
  {Primary(<<PlainClass(n1, i1), PlainClass(n2, i2)>>) :
     <<n1, i1, n2, i2>> \in {<<"b", "a", "s", "i", "c">>} \X {<<"1">>} \X {<<"b", "a", "s", "i", "c">>, <<"t", "x">>} \X {<<"1">>, <<"2">>, <<"x">>}}
  \cup
  {Primary(<<ClassTag(<<"b", "a", "s", "i", "c">>, <<"6", "0">>, <<m>>)>>) : m \in TroubleMethodTags}
  \cup
  {Primary(<<ClassTag(<<"b", "a", "s", "i", "c">>, <<"6", "0">>,
                      <<MethodTag(n1, <<"1">>, <<>>), MethodTag(n2, i2, <<>>)>>)>>) :
     <<n1, n2, i2>> \in {<<"g", "e", "t", "-", "o", "k">>} \X {<<"g", "e", "t", "_", "o", "k">>, <<"g", "e", "t", " ", "o", "k">>, <<"g", "e", "t">>} \X {<<"1">>, <<"2">>}}

\* Family E: a primary document and two overlays that each add a field of
\* the declared type short to the method get; each of the three documents
\* may declare the domain short, an alias with the name of a base type,
\* each as another type.
TwoOverlayDocuments ==
  {[primary |-> Document(pdoms \o <<ClassTag(<<"b", "a", "s", "i", "c">>, <<"6", "0">>,
                  <<MethodTag(<<"g", "e", "t">>, <<"1">>, <<FieldTag(<<"x">>, <<"s", "h", "o", "r", "t">>)>>)>>)>>),
    errata |-> <<Document(e1doms \o <<ClassTag(<<"b", "a", "s", "i", "c">>, <<"6", "0">>,
                   <<MethodTag(<<"g", "e", "t">>, <<"1">>,
                               <<DocTag("text"), FieldTag(<<"w">>, <<"s", "h", "o", "r", "t">>)>>)>>)>>),
                 Document(e2doms \o <<ClassTag(<<"b", "a", "s", "i", "c">>, <<"6", "0">>,
                   <<MethodTag(<<"g", "e", "t">>, <<"1">>,
                               <<DocTag("text"), DocTag("text"), FieldTag(<<"z">>, <<"s", "h", "o", "r", "t">>)>>)>>)>>)>>] :
     <<pdoms, e1doms, e2doms>> \in
        {<<>>, <<DomainTag(<<"s", "h", "o", "r", "t">>, <<"b", "i", "t">>)>>}
        \X {<<>>, <<DomainTag(<<"s", "h", "o", "r", "t">>, <<"s", "h", "o", "r", "t", "s", "t", "r">>)>>}
        \X {<<>>, <<DomainTag(<<"s", "h", "o", "r", "t">>, <<"l", "o", "n", "g">>)>>}}

\* Family F: a primary document whose class has the methods get, get-ok and
\* nack, get naming get-ok as its response or none, and an overlay that
\* names one of the three and gives it a response tag, a field tag or both.
ResponseOverlayDocuments ==
  {[primary |-> Document(<<ClassTag(<<"b", "a", "s", "i", "c">>, <<"6", "0">>,
                  <<ResponseMethodTag(<<"g", "e", "t">>, <<"1">>, rs),
                    MethodTag(<<"g", "e", "t", "-", "o", "k">>, <<"2">>, <<>>),
                    MethodTag(<<"n", "a", "c", "k">>, <<"3">>, <<>>)>>)>>),
    errata |-> <<Document(<<ClassTag(<<"b", "a", "s", "i", "c">>, <<"6", "0">>,
                   <<MethodTag(target, <<"1">>, kids)>>)>>)>>] :
     <<rs, target, kids>> \in
        {<<>>, <<<<"g", "e", "t", "-", "o", "k">>>>}
        \X {<<"g", "e", "t">>, <<"g", "e", "t", "-", "o", "k">>, <<"n", "a", "c", "k">>}
        \X {<<ResponseTag(<<"n", "a", "c", "k">>)>>,
            <<ResponseTag(<<"n", "a", "c", "k">>), FieldTag(<<"z">>, <<"b", "i", "t">>)>>,
            <<FieldTag(<<"z">>, <<"b", "i", "t">>)>>}}

\* Family G: a primary document whose class has a field and the method get
\* with a field, and an overlay that names the method twice in one class
\* tag and the class twice, each tag with children of its own or none.
RepeatedOverlayDocuments ==
  {[primary |-> Document(<<ClassTag(<<"b", "a", "s", "i", "c">>, <<"6", "0">>,
                  <<FieldTag(<<"v">>, <<"l", "o", "n", "g">>),
                    MethodTag(<<"g", "e", "t">>, <<"1">>,
                              <<DocTag("text"), DocTag("text"), FieldTag(<<"x">>, <<"l", "o", "n", "g">>)>>)>>)>>),
    errata |-> <<Document(<<ClassTag(<<"b", "a", "s", "i", "c">>, <<"6", "0">>,
                              k1 \o <<MethodTag(<<"g", "e", "t">>, <<"1">>, m1),
                                      MethodTag(<<"g", "e", "t">>, <<"1">>, m2)>>),
                            ClassTag(<<"b", "a", "s", "i", "c">>, <<"6", "0">>, k2)>>)>>] :
     <<k1, k2, m1, m2>> \in
        {<<>>, <<DocTag("text"), DocTag("text"), FieldTag(<<"t">>, <<"b", "i", "t">>)>>}
        \X {<<>>, <<DocTag("text"), FieldTag(<<"u">>, <<"b", "i", "t">>)>>}
        \X {<<>>, <<DocTag("text"), FieldTag(<<"z">>, <<"b", "i", "t">>)>>, <<FieldTag(<<"w">>, <<"b", "i", "t">>)>>}
        \X {<<>>, <<DocTag("text"), FieldTag(<<"z">>, <<"b", "i", "t">>)>>, <<FieldTag(<<"w">>, <<"b", "i", "t">>)>>}}

\* load is called with the documents of one of the families
Init ==
  /\ \/ input \in ResponseDocuments
     \/ input \in AliasDocuments
     \/ input \in OverlayDocuments
     \/ input \in TwoOverlayDocuments
     \/ input \in ResponseOverlayDocuments
     \/ input \in RepeatedOverlayDocuments
     \/ input \in TroubleDocuments
  /\ lpc = "start"
  /\ heap = <<>>
  /\ lspec = NoSpec
  /\ lloc = NoLocals
  /\ lerr = NoError
  /\ published = NoSpec
  /\ ccall = NoConsumerCall
  /\ RegIdle /\ ArgIdle /\ AliasIdle /\ StubIdle /\ ReloadIdle /\ TreeIdle

Spec == Init /\ [][Next]_vars

(***************************************************************************)
(* What the documents declare, read off the documents themselves.          *)
(***************************************************************************)
\* the amqp tags of the documents load is called with, the primary first
InputRoots ==
  <<NodeChildren(input.primary, "amqp")[1]>> \o
  [i \in DOMAIN input.errata |-> NodeChildren(input.errata[i], "amqp")[1]]

RECURSIVE CountTags(_, _)
\* how many children named name the tags of roots have together
CountTags(roots, name) ==
  IF roots = <<>> THEN 0
  ELSE Len(NodeChildren(Head(roots), name)) + CountTags(Tail(roots), name)

\* the alias map the domain tags of root declare: a later tag of a name
\* replaces an earlier one
DeclaredDomains(root) ==
  LET ds == NodeChildren(root, "domain")
      last(n) == CHOOSE i \in DOMAIN ds :
                   /\ ds[i].attrs["name"] = n
                   /\ \A j \in DOMAIN ds : ds[j].attrs["name"] = n => j <= i
  IN [n \in {ds[i].attrs["name"] : i \in DOMAIN ds} |-> ds[last(n)].attrs["type"]]

\* the alias chains of d that start at type t and end at a base type: no
\* type twice, each but the last mapped to the next, the last no key of d or
\* mapped to itself.  There is one when no cycle is met from t, else none.
AliasChains(d, t) ==
  LET T == DOMAIN d \cup Range(d) \cup {t}
  IN {ch \in UNION {[1..n -> T] : n \in 1..(Cardinality(DOMAIN d) + 1)} :
        /\ ch[1] = t
        /\ \A i, j \in DOMAIN ch : i # j => ch[i] # ch[j]
        /\ \A i \in 1..(Len(ch) - 1) : HasKey(d, ch[i]) /\ d[ch[i]] = ch[i + 1]
        /\ ~HasKey(d, ch[Len(ch)]) \/ d[ch[Len(ch)]] = ch[Len(ch)]}

\* the field tags, with a name and a declared type, of the method tags named
\* mname in the class tags named cname of root
FieldTagsOf(root, cname, mname) ==
  LET cs == NodeChildren(root, "class")
      ms(c) == NodeChildren(c, "method")
      named(nd, n) == NodeHasAttr(nd, "name") /\ Pythonize(nd.attrs["name"]) = n
  IN {f \in UNION {Range(NodeChildren(m, "field")) :
                     m \in UNION {{x \in Range(ms(c)) : named(x, mname)} :
                                    c \in {y \in Range(cs) : named(y, cname)}}} :
        NodeHasAttr(f, "name") /\ DeclaredType(f).err = NoError}

\* what arguments() gives for a left-out field declared with type directly
DirectDefault(type) ==
  LET h == <<NewField(<<"x">>, 0, type, <<>>)>>
      c == ContainerAdd(EmptyContainer, h, 1).c
  IN {o.val[1] : o \in {p \in Arguments(h, c, <<>>, EmptyDict) : p.err = NoError}}

\* the Method objects of the model load is building
LoadedMethods ==
  UNION {Range(heap[c].methods.items) : c \in Range(lspec.classes.items)}

(***************************************************************************)
(* C6                                                                      *)
(***************************************************************************)
\* C6: load is all-or-nothing.  Once a step of it has failed (or hangs)
\* nothing more of load runs and the caller has no Spec; the caller has a
\* Spec only when load is done without an error, every document has been
\* walked (the constants of all of them and the classes of the primary one
\* are in the Spec) and post_load has completed.  The Spec the caller has is
\* the one load built, whatever Spec.method has cached in it since.
C6_AllOrNothing ==
  /\ lerr # NoError => lpc = "failed"
  /\ lpc \in {"failed", "hung"} => published = NoSpec /\ ~ENABLED Next
  /\ published # NoSpec =>
       /\ lpc = "done" /\ lerr = NoError
       /\ [published EXCEPT !.methods = lspec.methods] = lspec
       /\ lloc.ri = Len(input.errata) + 1
       /\ ContainerLen(published.constants) = CountTags(InputRoots, "constant")
       /\ ContainerLen(published.classes) = CountTags(<<InputRoots[1]>>, "class")
       /\ published.loaded

\* load has failed in an overlay, with classes of the primary document
\* already in the local Spec, and the caller has none
C6_Witness ==
  /\ lpc = "failed" /\ lerr = "DuplicateIdentity"
  /\ lloc.ri = 2
  /\ ContainerLen(lspec.classes) > 0
  /\ published = NoSpec

\* load has failed in post_load, and the caller has no Spec
C6_WitnessPostLoad ==
  /\ lpc = "failed" /\ lerr = "KeyError"
  /\ lloc.ri = Len(input.errata) + 1
  /\ published = NoSpec

(***************************************************************************)
(* C7                                                                      *)
(***************************************************************************)
\* C7: after a successful load the responses of every method are, one per
\* response tag of its method tag and in the order of the tags, the Methods
\* of the same class that have the names the tags give (pythonized), each
\* marked as a response; a name of a method declared later than the method
\* that names it is no exception.
C7_ResponsesResolved ==
  lpc = "done" =>
    \A j \in DOMAIN published.classes.items :
      LET c == published.classes.items[j]
          m_nds == NodeChildren(NodeChildren(InputRoots[1], "class")[j], "method")
      IN /\ Len(heap[c].methods.items) = Len(m_nds)
         /\ \A k \in DOMAIN heap[c].methods.items :
              LET m == heap[c].methods.items[k]
                  rs == NodeChildren(m_nds[k], "response")
              IN /\ heap[m].resolved
                 /\ Len(heap[m].responses) = Len(rs)
                 /\ \A i \in DOMAIN rs :
                      LET r == heap[m].responses[i]
                      IN /\ r \in Range(heap[c].methods.items)
                         /\ heap[r].kind = "Method"
                         /\ heap[r].name = Pythonize(rs[i].attrs["name"])
                         /\ heap[r].response

\* a successful load of a class in which a method names as a response a
\* method declared after it
C7_Witness ==
  /\ lpc = "done"
  /\ \E c \in Range(published.classes.items) :
       \E m \in Range(heap[c].methods.items) :
         \E i \in DOMAIN heap[m].responses :
           heap[c].methods.indexes[heap[m].responses[i]] > heap[c].methods.indexes[m]

(***************************************************************************)
(* C8                                                                      *)
(***************************************************************************)
\* the tag an overlay's step is about, and the registry its name is looked up in
OverlayTag ==
  LET c_nd == NodeChildren(CurrentRoot(lloc), "class")[lloc.ci]
  IN IF lpc = "class" THEN [nd |-> c_nd, reg |-> lspec.classes]
     ELSE [nd |-> NodeChildren(c_nd, "method")[lloc.mi], reg |-> heap[lloc.klass].methods]

\* the class or method the overlay's tag names
OverlayObject == OverlayTag.reg.byname[Pythonize(OverlayTag.nd.attrs["name"])]

\* load is about to walk a tag of an overlay that names an existing class or
\* method and has field tags, each with a name that is new to the fields of
\* that class or method and with a type that resolves
OverlayAddsFields ==
  /\ lpc \in {"class", "method"}
  /\ lloc.ri >= 2
  /\ NodeHasAttr(OverlayTag.nd, "name")
  /\ HasKey(OverlayTag.reg.byname, Pythonize(OverlayTag.nd.attrs["name"]))
  /\ LET fs == NodeChildren(OverlayTag.nd, "field")
     IN /\ fs # <<>>
        /\ \A i \in DOMAIN fs :
             /\ NodeHasAttr(fs[i], "name")
             /\ DeclaredType(fs[i]).err = NoError
             /\ ~ResolveType(lloc.domains, DeclaredType(fs[i]).val).hangs
             /\ ~HasKey(heap[OverlayObject].fields.byname, Pythonize(fs[i].attrs["name"]))
        /\ \A i, j \in DOMAIN fs :
             i # j => Pythonize(fs[i].attrs["name"]) # Pythonize(fs[j].attrs["name"])

\* C8: when an overlay adds fields to an existing class or method, the step
\* succeeds, each new field stands in the argument order where its declared
\* index puts it (after the fields of a smaller index, before those of a
\* greater one), and the fields that were there keep their ids, their types
\* and their order.
C8_OverlayFieldAtDeclaredIndex ==
  [][OverlayAddsFields =>
       /\ lpc' # "failed"
       /\ LET old == heap[OverlayObject].fields
              new == heap'[OverlayObject].fields
              fs == NodeChildren(OverlayTag.nd, "field")
          IN /\ \A i \in DOMAIN fs :
                  LET f == new.byname[Pythonize(fs[i].attrs["name"])]
                  IN new.indexes[f] =
                       Cardinality({g \in Range(new.items) : heap'[g].id < heap'[f].id})
             /\ \A a \in Range(old.items) :
                  /\ a \in Range(new.items)
                  /\ heap'[a] = heap[a]
                  /\ \A b \in Range(old.items) :
                       old.indexes[a] < old.indexes[b] => new.indexes[a] < new.indexes[b]]_vars

\* What load does with such a field: when the step succeeds the field is
\* behind the fields that were there, whatever its index, and the fields
\* that were there are untouched; the step fails with DuplicateIdentity
\* exactly when the field's place among the children of its tag is the id
\* of a field that was there.
C8_OverlayFieldAppended ==
  [][OverlayAddsFields =>
       LET old == heap[OverlayObject].fields
           fs == NodeChildren(OverlayTag.nd, "field")
           idxs == NodeChildIndexes(OverlayTag.nd, "field")
           collides == \E i \in DOMAIN idxs : HasKey(old.byid, idxs[i])
       IN /\ (lpc' = "failed") = collides
          /\ collides => lerr' = "DuplicateIdentity"
          /\ ~collides =>
               LET new == heap'[OverlayObject].fields
               IN /\ Len(new.items) = Len(old.items) + Len(fs)
                  /\ SubSeq(new.items, 1, Len(old.items)) = old.items
                  /\ \A a \in Range(old.items) : heap'[a] = heap[a]
                  /\ \A i \in DOMAIN fs :
                       LET f == new.items[Len(old.items) + i]
                       IN /\ heap'[f].name = Pythonize(fs[i].attrs["name"])
                          /\ heap'[f].id = idxs[i]]_vars

(***************************************************************************)
(* C10                                                                     *)
(***************************************************************************)
\* C10: when the fields are loaded, a field whose declared type starts an
\* alias chain of its document that meets no cycle has the type the chain
\* ends at, and arguments() gives for it, left out, what it gives for a
\* field declared with that type directly.
C10_AliasChainResolves ==
  lpc \in {"post_load", "return", "done"} =>
    \A m \in LoadedMethods :
      \A r \in DOMAIN lloc.roots :
        \A f_nd \in FieldTagsOf(lloc.roots[r], heap[heap[m].klass].name, heap[m].name) :
          \A ch \in AliasChains(DeclaredDomains(lloc.roots[r]), DeclaredType(f_nd).val) :
            LET f == heap[m].fields.byname[Pythonize(f_nd.attrs["name"])]
            IN /\ heap[f].type = ch[Len(ch)]
               /\ ccall.op = "arguments" /\ ccall.arg = m =>
                    /\ ccall.out.err = NoError
                    /\ ccall.out.val[heap[m].fields.indexes[f] + 1] \in DirectDefault(ch[Len(ch)])

\* arguments() has been called, every field left out, on a method with a
\* field declared through a chain of two aliases
C10_Witness ==
  /\ ccall.op = "arguments"
  /\ \E r \in DOMAIN lloc.roots :
       \E f_nd \in FieldTagsOf(lloc.roots[r], heap[heap[ccall.arg].klass].name, heap[ccall.arg].name) :
         \E ch \in AliasChains(DeclaredDomains(lloc.roots[r]), DeclaredType(f_nd).val) :
           /\ Len(ch) >= 3
           /\ heap[heap[ccall.arg].fields.byname[Pythonize(f_nd.attrs["name"])]].type = ch[Len(ch)]

(***************************************************************************)
(* C11                                                                     *)
(***************************************************************************)
\* the class tag load is at
CurrentClassTag == NodeChildren(CurrentRoot(lloc), "class")[lloc.ci]

\* the pythonized names the method tags of a class tag give
MethodNamesOf(c_nd) ==
  {Pythonize(m.attrs["name"]) : m \in {x \in Range(NodeChildren(c_nd, "method")) : NodeHasAttr(x, "name")}}

\* the pythonized names the response tags of the method tags of a class tag give
ResponseNamesOf(c_nd) ==
  UNION {{Pythonize(r.attrs["name"]) : r \in {x \in Range(NodeChildren(m, "response")) : NodeHasAttr(x, "name")}} :
           m \in Range(NodeChildren(c_nd, "method"))}

\* C11: a reference to what is not declared ends load with NotFound, at the
\* step that meets it: a class tag of an overlay with a name no class has,
\* a method tag of an overlay with a name no method of the class has, a
\* response name of a method of the primary document that no method of the
\* same class has.  And no step of load in an overlay changes the classes
\* of the Spec or the methods of a class.
C11_UndeclaredReference ==
  [][/\ (/\ lpc \in {"class", "method"} /\ lloc.ri >= 2
         /\ NodeHasAttr(OverlayTag.nd, "name")
         /\ ~HasKey(OverlayTag.reg.byname, Pythonize(OverlayTag.nd.attrs["name"])))
        => lpc' = "failed" /\ lerr' = "NotFound"
     /\ (/\ lpc = "resolve" /\ lloc.ri = 1
         /\ ~(ResponseNamesOf(CurrentClassTag) \subseteq MethodNamesOf(CurrentClassTag)))
        => lpc' = "failed" /\ lerr' = "NotFound"
     /\ (lloc.ri >= 2 /\ lpc \in {"constants", "domains", "class", "method", "resolve"})
        => /\ lspec'.classes = lspec.classes
           /\ \A c \in Range(lspec.classes.items) : heap'[c].methods = heap[c].methods]_vars

\* load has failed with NotFound at a method tag of an overlay, in a class
\* that the overlay names rightly
C11_Witness ==
  /\ lpc = "failed" /\ lerr = "NotFound"
  /\ lloc.ri = 2
  /\ HasKey(lspec.classes.byname, Pythonize(CurrentClassTag.attrs["name"]))

\* load has failed with NotFound at a class tag of an overlay
C11_WitnessClass ==
  /\ lpc = "failed" /\ lerr = "NotFound"
  /\ lloc.ri = 2
  /\ ~HasKey(lspec.classes.byname, Pythonize(CurrentClassTag.attrs["name"]))

\* load has failed with NotFound at the responses of a class of the primary document
C11_WitnessResponse ==
  /\ lpc = "failed" /\ lerr = "NotFound"
  /\ lloc.ri = 1

(***************************************************************************)
(* C12                                                                     *)
(***************************************************************************)
\* the constant tags of the roots before the one load is at, then those of
\* the root it is at
ConstantTagsSoFar ==
  LET before[r \in 0..(lloc.ri - 1)] ==
        IF r = 0 THEN <<>> ELSE before[r - 1] \o NodeChildren(lloc.roots[r], "constant")
  IN [earlier |-> before[lloc.ri - 1], here |-> NodeChildren(CurrentRoot(lloc), "constant")]

\* a constant tag load can make a Constant of
ConstantWellFormed(nd) == NodeHasAttr(nd, "name") /\ AttrInt(nd, "value").err = NoError

\* two tags give the same name, or the same number under key
SameIdentity(a, b, key) ==
  \/ Pythonize(a.attrs["name"]) = Pythonize(b.attrs["name"])
  \/ AttrInt(a, key).val = AttrInt(b, key).val

\* a class tag load can make a Class of
ClassWellFormed(nd) ==
  NodeHasAttr(nd, "name") /\ AttrInt(nd, "index").err = NoError /\ NodeHasAttr(nd, "handler")

\* a method tag load can make a Method of
MethodWellFormed(nd) ==
  /\ NodeHasAttr(nd, "name") /\ AttrInt(nd, "index").err = NoError
  /\ NodeGetBool(nd, "content").err = NoError
  /\ NodeGetBool(nd, "synchronous").err = NoError
  /\ ResponseNames(nd).err = NoError

\* C12: defining an identity twice ends load with DuplicateIdentity, at the
\* step that meets the second definition: a constant with the name or the
\* value of a constant of this or an earlier document, a class of the
\* primary document with the name or the index of an earlier class of it, a
\* method of a class of the primary document with the name or the index of
\* an earlier method of that class.
C12_DuplicateIdentity ==
  [][/\ (/\ lpc = "constants"
         /\ LET t == ConstantTagsSoFar
            IN \E i \in DOMAIN t.here :
                 /\ \A j \in 1..i : ConstantWellFormed(t.here[j])
                 /\ \/ \E j \in 1..(i - 1) : SameIdentity(t.here[j], t.here[i], "value")
                    \/ \E j \in DOMAIN t.earlier : SameIdentity(t.earlier[j], t.here[i], "value"))
        => lpc' = "failed" /\ lerr' = "DuplicateIdentity"
     /\ (/\ lpc = "class" /\ lloc.ri = 1
         /\ ClassWellFormed(CurrentClassTag)
         /\ \E j \in 1..(lloc.ci - 1) :
              SameIdentity(NodeChildren(CurrentRoot(lloc), "class")[j], CurrentClassTag, "index"))
        => lpc' = "failed" /\ lerr' = "DuplicateIdentity"
     /\ (/\ lpc = "method" /\ lloc.ri = 1
         /\ LET ms == NodeChildren(CurrentClassTag, "method")
            IN /\ MethodWellFormed(ms[lloc.mi])
               /\ \E j \in 1..(lloc.mi - 1) : SameIdentity(ms[j], ms[lloc.mi], "index"))
        => lpc' = "failed" /\ lerr' = "DuplicateIdentity"]_vars

\* load has failed with DuplicateIdentity at the constants of an overlay
C12_Witness ==
  /\ lpc = "failed" /\ lerr = "DuplicateIdentity"
  /\ lloc.ri = 2 /\ lloc.ci = 0
  /\ NodeChildren(CurrentRoot(lloc), "constant") # <<>>

\* load has failed with DuplicateIdentity at the second class of the primary document
C12_WitnessClass ==
  /\ lpc = "failed" /\ lerr = "DuplicateIdentity"
  /\ lloc.ri = 1 /\ lloc.ci = 2 /\ lloc.mi = 0

\* load has failed with DuplicateIdentity at the second method of a class
\* of the primary document, a method without fields
C12_WitnessMethod ==
  /\ lpc = "failed" /\ lerr = "DuplicateIdentity"
  /\ lloc.ri = 1 /\ lloc.mi = 2
  /\ NodeChildren(NodeChildren(CurrentClassTag, "method")[2], "field") = <<>>

(***************************************************************************)
(* C13                                                                     *)
(***************************************************************************)
\* the values of a call that names every field, in the order of the fields
ArgNamedInOrder == [i \in DOMAIN aheap |-> acall.kwargs[aheap[i].name]]

\* C13: a call that gives every field a positional value returns these
\* values as they stand; a call that names every field returns the values
\* in the order of the fields, and so what the positional call with the
\* same values returns; where a call that returns leaves a field out, the
\* tuple has the default of the field's type at the field's place.
C13_ArgumentsRoundTrip ==
  /\ (acall.called /\ Len(acall.args) = Len(aheap) /\ acall.kwargs = EmptyDict)
     => acall.out = [err |-> NoError, val |-> acall.args]
  /\ (acall.called /\ acall.args = <<>> /\ DOMAIN acall.kwargs = {aheap[i].name : i \in DOMAIN aheap})
     => /\ acall.out = [err |-> NoError, val |-> ArgNamedInOrder]
        /\ Arguments(aheap, afields, ArgNamedInOrder, EmptyDict) = {acall.out}
  /\ (/\ acall.called /\ ArgCount <= Len(aheap)
      /\ \A key \in DOMAIN acall.kwargs : ArgKeyFree(key))
     => /\ acall.out.err = NoError
        /\ \A i \in DOMAIN aheap :
             (i > Len(acall.args) /\ aheap[i].name \notin DOMAIN acall.kwargs)
             => acall.out.val[i] = DEFAULTS[aheap[i].type]

\* a call has named both fields of a method whose fields carry ids that are
\* not their places, with different values, and has returned the values in
\* the order of the fields
C13_Witness ==
  /\ acall.called
  /\ Len(aheap) = 2 /\ aheap[1].id = 1 /\ aheap[2].id = 0
  /\ acall.args = <<>>
  /\ DOMAIN acall.kwargs = {aheap[1].name, aheap[2].name}
  /\ acall.kwargs[aheap[1].name] # acall.kwargs[aheap[2].name]
  /\ acall.out = [err |-> NoError, val |-> ArgNamedInOrder]

\* a call has given both fields of such a method positional values
C13_WitnessPositional ==
  /\ acall.called
  /\ Len(aheap) = 2 /\ aheap[1].id = 1 /\ aheap[2].id = 0
  /\ acall.kwargs = EmptyDict
  /\ acall.args = <<"0", "7">>
  /\ acall.out.val = <<"0", "7">>

(***************************************************************************)
(* SpecStub: the function define_method makes of a method with at most     *)
(* MaxStubFields fields, with or without content, and the calls of it      *)
(* with at most MaxStubFields + 2 positional and MaxStubNamed named        *)
(* values.                                                                 *)
(***************************************************************************)
MaxStubFields == 2
MaxStubNamed == 2
ContentName == <<"c", "o", "n", "t", "e", "n", "t">>
StubFieldNames == {<<"x">>, <<"y">>, ContentName}
StubKeys == StubFieldNames \cup {<<"w">>}
StubTypes == {<<"b", "i", "t">>, <<"l", "o", "n", "g">>, <<"u">>}
StubPositional == {"7", "8"}
StubNamed == {"9"}

\* The call f(obj, *args, **kwargs) of the function define_method made:
\* Python binds the values to the parameters after self (too many
\* positional values, then a name that is no parameter or that a positional
\* value has bound already, raise TypeError; a keyword dict has no order, so
\* any bad name may be the one reported), and the body runs
\* self.invoke(__method__, (fields,)[, content]).  The result is the set of
\* possible outcomes [err, val], val being the calls of invoke made.
StubInvoke(stub, args, kwargs) ==
  LET params == stub.params
      place(key) == IF \E i \in DOMAIN params : params[i].name = key
                    THEN CHOOSE i \in DOMAIN params : params[i].name = key
                    ELSE 0
      bad == {key \in DOMAIN kwargs : place(key) <= Len(args)}
      value(i) == IF i <= Len(args) THEN args[i]
                  ELSE IF HasKey(kwargs, params[i].name) THEN kwargs[params[i].name]
                  ELSE params[i].default
      nfields == IF stub.content THEN Len(params) - 1 ELSE Len(params)
  IN IF Len(args) > Len(params) THEN {ArgsError("TooManyArguments")}
     ELSE IF bad # {}
     THEN {ArgsError(IF place(key) = 0 THEN "UnknownArgument" ELSE "MultipleValues") : key \in bad}
     ELSE {[err |-> NoError,
            val |-> <<[method |-> stub.method,
                       args |-> [i \in 1..nfields |-> value(i)],
                       content |-> IF stub.content THEN <<value(Len(params))>> ELSE <<>>]>>]}

\* the heaps of SpecStub: the fields of a method, ids their places, and
\* behind them the method
StubHeaps ==
  {LET n == Len(x[1])
       fields == [k \in 1..n |-> NewField(x[1][k], k - 1, x[2][k], <<>>)]
       m == NewMethod(NullRef, <<"g", "e", "t">>, 1, x[3], <<>>, FALSE, "text", <<>>)
   IN Append(fields, [m EXCEPT !.fields = AddAll(EmptyContainer, fields, 1)]) :
     x \in UNION {{nm \in [1..k -> StubFieldNames] : \A i, j \in 1..k : i # j => nm[i] # nm[j]}
                    \X [1..k -> StubTypes] \X BOOLEAN : k \in 0..MaxStubFields}}

StubKwargs ==
  UNION {[K -> StubNamed] : K \in {K \in SUBSET StubKeys : Cardinality(K) <= MaxStubNamed}}

\* the Method object of sheap
StubMethod == Len(sheap)

\* f = method.define_method(method.name)
StubDefine ==
  /\ ~sstub.called
  /\ LET d == DefineMethod(sheap, StubMethod, sheap[StubMethod].name)
     IN /\ sheap' = d.h
        /\ sstub' = [called |-> TRUE, err |-> d.err, stub |-> d.stub]
  /\ UNCHANGED scall
  /\ UNCHANGED <<regVars, argVars, aliasVars, loadVars, reloadVars, treeVars>>

\* f(obj, *args, **kwargs), obj an object with an invoke method
StubCall ==
  /\ sstub.called /\ sstub.err = NoError
  /\ ~scall.called
  /\ \E args \in SeqsUpTo(StubPositional, MaxStubFields + 2), kwargs \in StubKwargs :
       \E out \in StubInvoke(sstub.stub, args, kwargs) :
          scall' = [called |-> TRUE, args |-> args, kwargs |-> kwargs, out |-> out]
  /\ UNCHANGED <<sheap, sstub>>
  /\ UNCHANGED <<regVars, argVars, aliasVars, loadVars, reloadVars, treeVars>>

\* the caller takes what invoke returned, or catches the TypeError
StubReturn ==
  /\ scall.called
  /\ scall' = NoStubCall
  /\ UNCHANGED <<sheap, sstub>>
  /\ UNCHANGED <<regVars, argVars, aliasVars, loadVars, reloadVars, treeVars>>

InitStub ==
  /\ sheap \in StubHeaps
  /\ sstub = NoStubDefined
  /\ scall = NoStubCall
  /\ RegIdle /\ ArgIdle /\ AliasIdle /\ LoadIdle /\ ReloadIdle /\ TreeIdle
NextStub == StubDefine \/ StubCall \/ StubReturn
SpecStub == InitStub /\ [][NextStub]_vars

(***************************************************************************)
(* C14                                                                     *)
(***************************************************************************)
\* the fields of the method of sheap, in order
StubFields == [i \in DOMAIN sheap[StubMethod].fields.items |-> sheap[sheap[StubMethod].fields.items[i]]]

\* the content value of the last call: what it gave, or <<>> when it gave none
StubContentGiven ==
  IF Len(scall.args) > Len(StubFields) THEN <<scall.args[Len(StubFields) + 1]>>
  ELSE IF HasKey(scall.kwargs, ContentName) THEN <<scall.kwargs[ContentName]>>
  ELSE <<>>

\* What the function does on its last call when the content parameter has
\* the defaults cdefault (<<>>: it has none and must be given): the call is
\* accepted when its positional values are not more than the parameters
\* (the fields, and content when the method has content), every named value
\* names a parameter no positional value fills, and content, where it is a
\* parameter without default, is given; an accepted call calls invoke once,
\* with the method, with the tuple of the fields in order (positional, else
\* named, else the default of the type) and, when the method has content,
\* with the content given or its default; another call calls it not at all.
StubContract(cdefault) ==
  LET m == sheap[StubMethod]
      fs == StubFields
      names == [i \in DOMAIN fs |-> fs[i].name] \o (IF m.content THEN <<ContentName>> ELSE <<>>)
      a == scall.args
      kw == scall.kwargs
      accepted == /\ Len(a) <= Len(names)
                  /\ \A key \in DOMAIN kw : \E i \in DOMAIN names : names[i] = key /\ i > Len(a)
                  /\ m.content => StubContentGiven \o cdefault # <<>>
  IN scall.called =>
       /\ accepted = (scall.out.err = NoError)
       /\ ~accepted => scall.out.val = <<>>
       /\ accepted =>
            /\ Len(scall.out.val) = 1
            /\ scall.out.val[1].method = StubMethod
            /\ Len(scall.out.val[1].args) = Len(fs)
            /\ \A i \in DOMAIN fs :
                 /\ HasKey(DEFAULTS, fs[i].type)
                 /\ scall.out.val[1].args[i] =
                      IF i <= Len(a) THEN a[i]
                      ELSE IF HasKey(kw, fs[i].name) THEN kw[fs[i].name]
                      ELSE DEFAULTS[fs[i].type]
            /\ scall.out.val[1].content =
                 IF m.content THEN <<(StubContentGiven \o cdefault)[1]>> ELSE <<>>

\* C14 as stated: the function calls invoke once with the method and the
\* tuple of its fields, passes the content after the tuple when the method
\* has content, takes no content when it has none, and its content
\* parameter has no default: a call that leaves the content out is refused.
C14_StubContentRequired == StubContract(<<>>)

\* C14 as the code has it: the same, but the content parameter has the
\* default None, and a call that leaves the content out passes None.
C14_StubInvokesOnce == StubContract(<<"None">>)

\* a call of the function of a method with a field and with content has
\* named the field, left the content out, and invoke got None for it
C14_Witness ==
  /\ scall.called
  /\ sheap[StubMethod].content
  /\ Len(StubFields) = 1
  /\ DOMAIN scall.kwargs = {StubFields[1].name}
  /\ scall.args = <<>>
  /\ scall.out = [err |-> NoError,
                  val |-> <<[method |-> StubMethod, args |-> <<"9">>, content |-> <<"None">>]>>]

(***************************************************************************)
(* C15                                                                     *)
(***************************************************************************)
\* the published Spec as load returned it: nothing looked up yet
AsReturned == [published EXCEPT !.methods = lspec.methods]

\* C15: once load has returned, no call of a consumer (Spec.method,
\* Method.define_method with its docstring, Method.arguments) changes the
\* published model, and each call's result is the result of the same call
\* made alone on the model as load returned it.
C15_ConsumersChangeNothing ==
  [][lpc = "done" =>
       /\ published' = published
       /\ heap' = heap
       /\ ccall'.op = "method" =>
            LET r == SpecMethod(heap, AsReturned, ccall'.name)
            IN ccall'.out = [err |-> r.err, val |-> r.val]
       /\ ccall'.op = "arguments" =>
            ccall'.out \in Arguments(heap, heap[ccall'.arg].fields, <<>>, EmptyDict)
       /\ ccall'.op = "define_method" =>
            ccall'.out.err = DefineMethod(heap, ccall'.arg, ccall'.name).err]_vars

\* what does hold: a consumer's call leaves the objects of the model as
\* they are and changes nothing of the Spec but its cache of looked-up
\* methods, and the results are those of calls made alone
C15_ConsumersChangeOnlyTheCache ==
  [][lpc = "done" =>
       /\ [published' EXCEPT !.methods = lspec.methods] = AsReturned
       /\ heap' = heap
       /\ ccall'.op = "method" =>
            LET r == SpecMethod(heap, AsReturned, ccall'.name)
            IN ccall'.out = [err |-> r.err, val |-> r.val]]_vars

\* Spec.method has found a method and has put it into the Spec's cache
C15_WitnessCached ==
  /\ lpc = "done"
  /\ ccall.op = "method" /\ ccall.out.err = NoError /\ ccall.out.val # <<>>
  /\ published.methods # lspec.methods

\* Spec.method was given the name of a class and has failed
C15_WitnessIndexError ==
  /\ ccall.op = "method" /\ ccall.out.err = "IndexError"

(***************************************************************************)
(* C16                                                                     *)
(***************************************************************************)
\* C16: a call of Method.arguments, whether it returns a tuple or fails,
\* leaves the Field objects and the method's field container as they were
\* built, so the outcome of every call, also of one made after a call that
\* failed, is an outcome of the same call on the method as built.
C16_ArgumentsLeavesModel ==
  [][/\ aheap' = aheap
     /\ afields' = afields
     /\ afields' = AddAll(EmptyContainer, aheap, 1)
     /\ acall'.called =>
          acall'.out \in Arguments(aheap, AddAll(EmptyContainer, aheap, 1),
                                   acall'.args, acall'.kwargs)]_vars

\* a call has failed after it had taken a named value for a field, and the
\* field container is as built
C16_Witness ==
  /\ acall.called
  /\ acall.out.err \in {"MultipleValues", "UnknownArgument"}
  /\ \E k \in DOMAIN afields.items :
       k > Len(acall.args) /\ HasKey(acall.kwargs, aheap[afields.items[k]].name)
  /\ afields = AddAll(EmptyContainer, aheap, 1)

\* a call with too many values has failed, and the field container is as built
C16_WitnessTooMany ==
  /\ acall.called /\ acall.out.err = "TooManyArguments"
  /\ aheap # <<>>
  /\ afields = AddAll(EmptyContainer, aheap, 1)

(***************************************************************************)
(* SpecReload: load(specfile, *errata) called twice on the same documents, *)
(* the second call after the first has returned, and then a change made    *)
(* to the model the first call returned.  Both calls are walked in the     *)
(* steps of Spec; the objects of the first call stay in the heap.          *)
(***************************************************************************)
\* the documents of SpecReload: constants in two documents, a class whose
\* method names responses, and a primary document with two overlays
ReloadDocuments ==
  TroubleDocuments \cup TwoOverlayDocuments
  \cup {Primary(<<ClassTag(<<"b", "a", "s", "i", "c">>, <<"6", "0">>,
                          <<ResponseMethodTag(<<"g", "e", "t">>, <<"1">>, rs),
                            ResponseMethodTag(<<"g", "e", "t", "-", "o", "k">>, <<"2">>, <<>>)>>)>>) :
          rs \in ResponseLists}

\* A slip of load: a call on documents loaded before returns the Spec made then.
ReloadAgainCached ==
  /\ lpc = "done" /\ tpc = "first"
  /\ tfirst' = published
  /\ tpc' = "second"
  /\ lpc' = "return"
  /\ published' = NoSpec
  /\ UNCHANGED <<input, heap, lspec, lloc, lerr, ccall>>
  /\ UNCHANGED <<regVars, argVars, aliasVars, stubVars, treeVars>>

\* the caller keeps the Spec of the first call and calls load again, on
\* the same documents
ReloadAgain ==
  /\ lpc = "done" /\ tpc = "first"
  /\ tfirst' = published
  /\ tpc' = "second"
  /\ lpc' = "start"
  /\ lspec' = NoSpec
  /\ lloc' = NoLocals
  /\ published' = NoSpec
  /\ UNCHANGED <<input, heap, lerr, ccall>>
  /\ UNCHANGED <<regVars, argVars, aliasVars, stubVars, treeVars>>

\* the objects of a model: its constants and classes, and the fields,
\* the methods and the methods' fields and responses of its classes
ModelObjects(h, spec) ==
  LET cs == Range(spec.classes.items)
      ms == UNION {Range(h[c].methods.items) : c \in cs}
  IN Range(spec.constants.items) \cup cs \cup ms
     \cup UNION {Range(h[c].fields.items) : c \in cs}
     \cup UNION {Range(h[m].fields.items) : m \in ms}
     \cup UNION {IF h[m].resolved THEN Range(h[m].responses) ELSE {} : m \in ms}

\* a change to the first model, both calls having returned: a name looked
\* up with Spec.method, a Field added to the fields of a class, or an
\* attribute of an object set
ReloadChange ==
  /\ lpc = "done" /\ tpc = "second"
  /\ tpc' = "changed"
  /\ \/ \E name \in ConsumerNames :
          /\ tfirst' = SpecMethod(heap, tfirst, name).spec
          /\ heap' = heap
     \/ \E c \in Range(tfirst.classes.items) :
          LET h2 == Append(heap, NewField(<<"n", "e", "w">>, 9, <<"b", "i", "t">>, <<>>))
              a == ContainerAdd(heap[c].fields, h2, Len(h2))
          IN /\ a.err = NoError
             /\ heap' = [h2 EXCEPT ![c].fields = a.c]
             /\ tfirst' = tfirst
     \/ \E r \in ModelObjects(heap, tfirst) :
          /\ heap' = [heap EXCEPT ![r].name = <<"n", "e", "w">>, ![r].docs = <<"text">>]
          /\ tfirst' = tfirst
  /\ UNCHANGED <<input, lpc, lspec, lloc, lerr, published, ccall>>
  /\ UNCHANGED <<regVars, argVars, aliasVars, stubVars, treeVars>>

InitReload ==
  /\ input \in ReloadDocuments
  /\ lpc = "start"
  /\ heap = <<>>
  /\ lspec = NoSpec
  /\ lloc = NoLocals
  /\ lerr = NoError
  /\ published = NoSpec
  /\ ccall = NoConsumerCall
  /\ tfirst = NoSpec
  /\ tpc = "first"
  /\ RegIdle /\ ArgIdle /\ AliasIdle /\ StubIdle /\ TreeIdle
NextReload ==
  \/ LoadStart \/ LoadRoots \/ LoadConstants \/ LoadDomains \/ LoadClass
  \/ LoadMethod \/ LoadResolve \/ LoadPostLoad \/ LoadReturn
  \/ ReloadAgain \/ ReloadChange
SpecReload == InitReload /\ [][NextReload]_vars

(***************************************************************************)
(* C17                                                                     *)
(***************************************************************************)
\* the place of the object r in the container c
PlaceOf(c, r) == CHOOSE k \in DOMAIN c.items : c.items[k] = r

\* a container without the identities of its objects: each object as
\* view shows it, and the places its three dicts lead to
ContainerView(h, c, view(_, _)) ==
  [items   |-> [k \in DOMAIN c.items |-> view(h, c.items[k])],
   byname  |-> [n \in DOMAIN c.byname |-> PlaceOf(c, c.byname[n])],
   byid    |-> [n \in DOMAIN c.byid |-> PlaceOf(c, c.byid[n])],
   indexes |-> {<<PlaceOf(c, r), c.indexes[r]>> : r \in DOMAIN c.indexes}]

\* a method, named by its class and its own name
MethodLink(h, m) == <<h[h[m].klass].name, h[m].name>>

FieldView(h, f) == h[f]
MethodView(h, m) ==
  [h[m] EXCEPT !.klass = h[h[m].klass].name,
               !.fields = ContainerView(h, h[m].fields, FieldView),
               !.responses = IF h[m].resolved
                             THEN [k \in DOMAIN h[m].responses |-> MethodLink(h, h[m].responses[k])]
                             ELSE h[m].responses]
ClassView(h, c) ==
  [h[c] EXCEPT !.fields = ContainerView(h, h[c].fields, FieldView),
               !.methods = ContainerView(h, h[c].methods, MethodView)]
StubsView(h, stubs) ==
  [n \in DOMAIN stubs |-> [stubs[n] EXCEPT !.method = MethodLink(h, stubs[n].method)]]

\* the structure of a model: all of it but the identities of its objects
SpecView(h, spec) ==
  [spec EXCEPT !.constants = ContainerView(h, spec.constants, FieldView),
               !.classes = ContainerView(h, spec.classes, ClassView),
               !.methods = [n \in DOMAIN spec.methods |-> MethodLink(h, spec.methods[n])],
               !.module = [c \in DOMAIN spec.module |-> StubsView(h, spec.module[c])],
               !.klass = StubsView(h, spec.klass)]

\* C17: a second load of the documents of a load that has returned returns
\* too and leaves the first model as it was while it runs; the two models
\* have the same structure (version, constants, classes, methods, fields,
\* ids, types, orders, response links and is-response flags) and no object
\* in common; and a change made to the first model leaves the structure of
\* the second as it was.
C17_ReloadsIndependent ==
  [][/\ tpc = "second" => lpc' \notin {"failed", "hung"}
     /\ (tpc = "second" /\ lpc # "done") =>
          SpecView(heap', tfirst') = SpecView(heap, tfirst)
     /\ (tpc = "second" /\ lpc # "done" /\ lpc' = "done") =>
          /\ SpecView(heap', tfirst') = SpecView(heap', published')
          /\ ModelObjects(heap', tfirst') \cap ModelObjects(heap', published') = {}
     /\ (tpc = "second" /\ lpc = "done") =>
          SpecView(heap', published') = SpecView(heap, published)]_vars

\* a primary document and two overlays have been loaded twice, the model
\* has a method with three fields and the first model was changed since:
\* the two structures differ now
C17_Witness ==
  /\ tpc = "changed"
  /\ Len(input.errata) = 2
  /\ \E m \in ModelObjects(heap, published) :
       heap[m].kind = "Method" /\ Len(heap[m].fields.items) = 3
  /\ SpecView(heap, tfirst) # SpecView(heap, published)

\* documents with a method that has a response have been loaded twice
C17_WitnessResponses ==
  /\ tpc = "second" /\ lpc = "done"
  /\ \E m \in ModelObjects(heap, published) :
       heap[m].kind = "Method" /\ heap[m].resolved /\ heap[m].responses # <<>>

(***************************************************************************)
(* SpecTree: a Builder on the root Node parse() makes, fed a well-nested   *)
(* sequence of startElement, endElement and characters events with at      *)
(* most MaxTreeNodes tags and MaxTreeText pieces of text; and, between     *)
(* documents, calls of has, get and [] on the nodes of the tree.  A Node   *)
(* is an object here: bnodes[r] for the reference r, the root at 1.        *)
(***************************************************************************)
MaxTreeNodes == 3
MaxTreeText == 1
TreeNames == {<<"a">>, <<"b">>}
TreeAttrs == {EmptyDict, (<<"a">> :> "1")}
TreeKeys == {<<"@", "a">>, <<"a">>}
TreeRoot == 1

\* A slip of Node.__init__: the node is put in front of its parent's children.
NodeInitFront(nodes, name, attrs, noattrs, parent) ==
  LET nd == [name |-> name, attrs |-> attrs, noattrs |-> noattrs, text |-> <<>>,
             parent |-> parent, children |-> <<>>]
      ns == Append(nodes, nd)
  IN IF parent # NullRef
     THEN [ns EXCEPT ![parent].children = <<Len(ns)>> \o @]
     ELSE ns

\* Node.__init__(name, attrs, None, parent): the nodes with the new one
\* behind them; text is <<>> for None, else the pieces of content in order
NodeInit(nodes, name, attrs, noattrs, parent) ==
  LET nd == [name |-> name, attrs |-> attrs, noattrs |-> noattrs, text |-> <<>>,
             parent |-> parent, children |-> <<>>]
      ns == Append(nodes, nd)
  IN IF parent # NullRef
     THEN [ns EXCEPT ![parent].children = Append(@, Len(ns))]
     ELSE ns

\* nd[key] for a string key: __getitem__ and __getstr__.  "@name" reads
\* self.attrs[name], which is None on the root; another key filters the
\* children by name.  [err, val], val = <<the value>>.
NodeItem(nodes, nd, key) ==
  IF key # <<>> /\ Head(key) = "@"
  THEN IF nodes[nd].noattrs THEN [err |-> "TypeError", val |-> <<>>]
       ELSE IF HasKey(nodes[nd].attrs, Tail(key))
       THEN [err |-> NoError, val |-> <<nodes[nd].attrs[Tail(key)]>>]
       ELSE [err |-> "KeyError", val |-> <<>>]
  ELSE [err |-> NoError,
        val |-> <<SelectSeq(nodes[nd].children, LAMBDA c : nodes[c].name = key)>>]

\* Node.has(key): True when self[key] returns, False on KeyError or IndexError
NodeHas(nodes, nd, key) ==
  LET r == NodeItem(nodes, nd, key)
  IN IF r.err = NoError THEN [err |-> NoError, val |-> <<"True">>]
     ELSE IF r.err \in {"KeyError", "IndexError"} THEN [err |-> NoError, val |-> <<"False">>]
     ELSE [err |-> r.err, val |-> <<>>]

\* Node.get(key), with its default None
NodeGet(nodes, nd, key) ==
  LET p == NodeHas(nodes, nd, key)
  IN IF p.err # NoError THEN p
     ELSE IF p.val = <<"True">> THEN NodeItem(nodes, nd, key)
     ELSE [err |-> NoError, val |-> <<"None">>]

\* Builder.startElement(name, attrs)
BuilderStartElement ==
  /\ bcall = NoNodeCall
  /\ Len(bnodes) <= MaxTreeNodes
  /\ \E name \in TreeNames, attrs \in TreeAttrs :
       bnodes' = NodeInit(bnodes, name, attrs, FALSE, bnode)
  /\ bnode' = Len(bnodes')
  /\ bopen' = Append(bopen, Len(bnodes'))
  /\ UNCHANGED bcall
  /\ UNCHANGED <<regVars, argVars, aliasVars, loadVars, stubVars, reloadVars>>

\* Builder.endElement(name), for the innermost tag that is open
BuilderEndElement ==
  /\ bopen # <<>>
  /\ bnode' = bnodes[bnode].parent
  /\ bopen' = SubSeq(bopen, 1, Len(bopen) - 1)
  /\ UNCHANGED <<bnodes, bcall>>
  /\ UNCHANGED <<regVars, argVars, aliasVars, loadVars, stubVars, reloadVars>>

\* the pieces of text the nodes at places k.. hold
RECURSIVE TreeTextFrom(_, _)
TreeTextFrom(nodes, k) ==
  IF k > Len(nodes) THEN 0 ELSE Len(nodes[k].text) + TreeTextFrom(nodes, k + 1)

\* Builder.characters(content), inside a tag
BuilderCharacters ==
  /\ bopen # <<>>
  /\ TreeTextFrom(bnodes, 1) < MaxTreeText
  /\ bnodes' = [bnodes EXCEPT ![bnode].text = IF @ = <<>> THEN <<"text">> ELSE @ \o <<"text">>]
  /\ UNCHANGED <<bnode, bopen, bcall>>
  /\ UNCHANGED <<regVars, argVars, aliasVars, loadVars, stubVars, reloadVars>>

\* nd.has(key), nd.get(key) or nd[key], on a node of the tree
NodeCall ==
  /\ bopen = <<>>
  /\ bcall = NoNodeCall
  /\ \E nd \in DOMAIN bnodes, key \in TreeKeys :
       \/ bcall' = [op |-> "has", nd |-> nd, key |-> key, out |-> NodeHas(bnodes, nd, key)]
       \/ bcall' = [op |-> "get", nd |-> nd, key |-> key, out |-> NodeGet(bnodes, nd, key)]
       \/ bcall' = [op |-> "item", nd |-> nd, key |-> key, out |-> NodeItem(bnodes, nd, key)]
  /\ UNCHANGED <<bnodes, bnode, bopen>>
  /\ UNCHANGED <<regVars, argVars, aliasVars, loadVars, stubVars, reloadVars>>

\* the caller takes the result, or the exception
NodeReturn ==
  /\ bcall # NoNodeCall
  /\ bcall' = NoNodeCall
  /\ UNCHANGED <<bnodes, bnode, bopen>>
  /\ UNCHANGED <<regVars, argVars, aliasVars, loadVars, stubVars, reloadVars>>

\* doc = Node("root"); Builder(doc)
InitTree ==
  /\ bnodes = NodeInit(<<>>, <<"r", "o", "o", "t">>, EmptyDict, TRUE, NullRef)
  /\ bnode = TreeRoot
  /\ bopen = <<>>
  /\ bcall = NoNodeCall
  /\ RegIdle /\ ArgIdle /\ AliasIdle /\ LoadIdle /\ StubIdle /\ ReloadIdle
NextTree ==
  \/ BuilderStartElement \/ BuilderEndElement \/ BuilderCharacters
  \/ NodeCall \/ NodeReturn
SpecTree == InitTree /\ [][NextTree]_vars

(***************************************************************************)
(* C18                                                                     *)
(***************************************************************************)
\* the node of the last call has the attribute, or a child of the tag,
\* that the key of the call names
NodeKeyPresent ==
  LET nd == bnodes[bcall.nd]
  IN IF Head(bcall.key) = "@"
     THEN ~nd.noattrs /\ HasKey(nd.attrs, Tail(bcall.key))
     ELSE \E k \in DOMAIN nd.children : bnodes[nd.children[k]].name = bcall.key

\* C18: on every node, the root too, has(key) returns True exactly when
\* the attribute, or a child with the tag, is there, and False otherwise;
\* nd[key] for an attribute or a child that is not there raises KeyError.
C18_ProbeAndAccess ==
  /\ bcall.op = "has" =>
       bcall.out = [err |-> NoError, val |-> <<IF NodeKeyPresent THEN "True" ELSE "False">>]
  /\ (bcall.op = "item" /\ ~NodeKeyPresent) => bcall.out.err = "KeyError"

\* what does hold: for an attribute of a node below the root has is exact
\* and nd["@key"] raises KeyError when the attribute is missing; on the
\* root both raise TypeError; for a tag has is True and nd[key] returns
\* the children of that tag, none when there is none.
C18_AttributeProbeOnly ==
  LET nd == bnodes[bcall.nd]
      attr == Head(bcall.key) = "@"
  IN /\ (bcall.op \in {"has", "item"} /\ attr /\ nd.noattrs) => bcall.out.err = "TypeError"
     /\ (bcall.op = "has" /\ attr /\ ~nd.noattrs) =>
          bcall.out = [err |-> NoError, val |-> <<IF NodeKeyPresent THEN "True" ELSE "False">>]
     /\ (bcall.op = "item" /\ attr /\ ~nd.noattrs /\ ~NodeKeyPresent) => bcall.out.err = "KeyError"
     /\ (bcall.op = "has" /\ ~attr) => bcall.out = [err |-> NoError, val |-> <<"True">>]
     /\ (bcall.op = "item" /\ ~attr) =>
          /\ bcall.out.err = NoError
          /\ NodeKeyPresent = (bcall.out.val[1] # <<>>)

\* has was asked for a tag on a node without children
C18_WitnessNoChild ==
  /\ bcall.op = "has" /\ bcall.nd # TreeRoot
  /\ bnodes[bcall.nd].children = <<>>
  /\ Head(bcall.key) # "@"

\* has was asked for an attribute on the root
C18_WitnessRoot ==
  /\ bcall.op = "has" /\ bcall.nd = TreeRoot
  /\ Head(bcall.key) = "@"

(***************************************************************************)
(* C19                                                                     *)
(***************************************************************************)
\* the tree at any moment: every node but the root has a parent made
\* before it and stands once among the parent's children; the children of
\* a node are its own, in the order they were made; the current node is the
\* innermost open tag, the root when none is open; and the open tags are
\* nested in each other from the root down
TreeWellFormed ==
  /\ bnodes[TreeRoot].parent = NullRef
  /\ \A n \in 2..Len(bnodes) :
       /\ bnodes[n].parent \in 1..(n - 1)
       /\ Cardinality({k \in DOMAIN bnodes[bnodes[n].parent].children :
                         bnodes[bnodes[n].parent].children[k] = n}) = 1
  /\ \A p \in DOMAIN bnodes :
       LET cs == bnodes[p].children
       IN /\ \A k \in DOMAIN cs : cs[k] \in DOMAIN bnodes /\ bnodes[cs[k]].parent = p
          /\ \A i, j \in DOMAIN cs : i < j => cs[i] < cs[j]
  /\ bnode = IF bopen = <<>> THEN TreeRoot ELSE bopen[Len(bopen)]
  /\ \A i \in DOMAIN bopen :
       bnodes[bopen[i]].parent = IF i = 1 THEN TreeRoot ELSE bopen[i - 1]

\* a start tag: the new node has the node that was current as parent, is
\* the last of its children, and is current now; the nodes there were are
\* as before but for that
TreeNodeCreated ==
  Len(bnodes') > Len(bnodes) =>
    LET n == Len(bnodes')
    IN /\ n = Len(bnodes) + 1
       /\ bnodes'[n].parent = bnode
       /\ bnodes'[n].children = <<>>
       /\ bnodes'[bnode].children = Append(bnodes[bnode].children, n)
       /\ bnode' = n
       /\ \A k \in DOMAIN bnodes : k # bnode => bnodes'[k] = bnodes[k]

\* C19: after any prefix of a well-nested sequence of events the tree is
\* well formed and the current node is the innermost open tag (the root
\* once every tag is closed), and each start tag makes its node as the
\* last child of the node that was current.
C19_BuilderTree == []TreeWellFormed /\ [][TreeNodeCreated]_vars

\* three tags: a second child of the first tag is open, after a first
\* child that was closed
C19_Witness ==
  /\ Len(bnodes) = 4
  /\ bnodes[2].children = <<3, 4>>
  /\ bopen = <<2, 4>>
  /\ bnode = 4

\* every tag is closed again, after nested tags and text
C19_WitnessClosed ==
  /\ bopen = <<>> /\ bnode = TreeRoot
  /\ Len(bnodes) >= 3 /\ bnodes[3].parent = 2
  /\ bnodes[3].text # <<>>

(***************************************************************************)
(* C20                                                                     *)
(***************************************************************************)
\* the tag whose fields load is loading: the class tag, or its method tag
CurrentFieldsTag ==
  IF lpc = "method" THEN NodeChildren(CurrentClassTag, "method")[lloc.mi] ELSE CurrentClassTag

\* the Field objects a step has made
FieldsMade == {r \in (Len(heap) + 1)..Len(heap') : heap'[r].kind = "Field"}

\* C20: the domains dict is built anew for every document, from the domain
\* tags of that document alone; every Field made has the type that the
\* aliases of the document that declares it, and no others, give to its
\* declared type; and a Field once made keeps its type in every later step.
C20_DomainsPerDocument ==
  [][/\ (lpc = "domains" /\ lpc' # "failed") =>
          lloc'.domains = DeclaredDomains(CurrentRoot(lloc))
     /\ lpc \in {"class", "method"} =>
          \A r \in FieldsMade :
            \E f_nd \in Range(NodeChildren(CurrentFieldsTag, "field")) :
              /\ NodeHasAttr(f_nd, "name") /\ Pythonize(f_nd.attrs["name"]) = heap'[r].name
              /\ DeclaredType(f_nd).err = NoError
              /\ \E ch \in AliasChains(DeclaredDomains(CurrentRoot(lloc)), DeclaredType(f_nd).val) :
                   heap'[r].type = ch[Len(ch)]
     /\ \A r \in DOMAIN heap :
          heap[r].kind = "Field" => r \in DOMAIN heap' /\ heap'[r].type = heap[r].type]_vars

\* the types of the fields of the one method of the model, by name
FieldTypesLoaded ==
  LET m == CHOOSE x \in LoadedMethods : TRUE
  IN [n \in DOMAIN heap[m].fields.byname |-> heap[heap[m].fields.byname[n]].type]

\* three documents are loaded; all three declare their field with the type
\* short, the first overlay alone declares the domain short: its field has
\* the type the domain gives, the fields of the two others keep the type
C20_Witness ==
  /\ lpc = "done"
  /\ Len(input.errata) = 2
  /\ LoadedMethods # {}
  /\ DOMAIN DeclaredDomains(InputRoots[1]) = {}
  /\ DOMAIN DeclaredDomains(InputRoots[3]) = {}
  /\ FieldTypesLoaded = (<<"x">> :> <<"s", "h", "o", "r", "t">>)
                        @@ (<<"w">> :> <<"s", "h", "o", "r", "t", "s", "t", "r">>)
                        @@ (<<"z">> :> <<"s", "h", "o", "r", "t">>)

\* the primary document and the second overlay declare the domain short,
\* each as another type, the first overlay does not: its field keeps the type
C20_WitnessBetween ==
  /\ lpc = "done"
  /\ Len(input.errata) = 2
  /\ LoadedMethods # {}
  /\ FieldTypesLoaded = (<<"x">> :> <<"b", "i", "t">>) @@ (<<"w">> :> <<"s", "h", "o", "r", "t">>)
                        @@ (<<"z">> :> <<"l", "o", "n", "g">>)

(***************************************************************************)
(* C25                                                                     *)
(***************************************************************************)
\* the last add was refused, and the item handed to it collided with an
\* entry by its name (byname TRUE) and by its id (byid TRUE)
RegRefusedFor(byname, byid) ==
  /\ rcall.item # NullRef
  /\ rcall.err = "DuplicateIdentity"
  /\ HasKey(rcall.before.byname, rheap[rcall.item].name) = byname
  /\ HasKey(rcall.before.byid, rheap[rcall.item].id) = byid

\* C25: an add that fails with DuplicateIdentity leaves the registry as it
\* was: the items, the size, the name index, the id index and the position
\* index are those before the call, whether the name, the id or both collide.
C25_RefusedAddChangesNothing ==
  rcall.err = "DuplicateIdentity" =>
    /\ ContainerIter(reg) = ContainerIter(rcall.before)
    /\ ContainerLen(reg) = ContainerLen(rcall.before)
    /\ reg.byname = rcall.before.byname
    /\ reg.byid = rcall.before.byid
    /\ reg.indexes = rcall.before.indexes
    /\ reg = rcall.before

\* an add was refused for its id alone, by a registry of one entry
C25_Witness == RegRefusedFor(FALSE, TRUE) /\ ContainerLen(reg) = 1

\* an add was refused for its name alone
C25_WitnessName == RegRefusedFor(TRUE, FALSE)

\* an add was refused for both keys, each held by another entry
C25_WitnessBoth ==
  /\ RegRefusedFor(TRUE, TRUE)
  /\ rcall.before.byname[rheap[rcall.item].name] # rcall.before.byid[rheap[rcall.item].id]

(***************************************************************************)
(* C24                                                                     *)
(***************************************************************************)
\* the Methods m of the published model with m.klass.name + "_" + m.name = name
MethodsNamed(name) ==
  {m \in PublishedMethods : heap[heap[m].klass].name \o <<"_">> \o heap[m].name = name}

\* what the last lookup returned is right: a Method named so when there is
\* one, the one the cache now holds, and nothing when there is none
LookupAnswer ==
  IF MethodsNamed(ccall.name) = {}
  THEN ccall.out.val = <<>> /\ ~HasKey(published.methods, ccall.name)
  ELSE /\ ccall.out.val # <<>>
       /\ ccall.out.val[1] \in MethodsNamed(ccall.name)
       /\ HasKey(published.methods, ccall.name)
       /\ ccall.out.val[1] = published.methods[ccall.name]

\* every entry of the lookup cache is a Method of the name it is stored under
CacheEntriesNamed ==
  \A n \in DOMAIN published.methods : published.methods[n] \in MethodsNamed(n)

\* C24: on a loaded Spec, Spec.method(name) never fails: it returns a Method
\* m with m.klass.name + "_" + m.name = name when there is one and nothing
\* otherwise, also for the name of a class on its own; every entry of the
\* cache satisfies that equation, and a repeated call returns the same Method.
C24_MethodLookupTotal ==
  /\ CacheEntriesNamed
  /\ ccall.op = "method" => ccall.out.err = NoError /\ LookupAnswer

\* what does hold: the lookup raises IndexError, and caches nothing, exactly
\* for a name that is the name of a class; for every other name it returns
\* as C24 says, and the entries of the cache are as C24 says.
C24_MethodLookupButClassName ==
  /\ CacheEntriesNamed
  /\ ccall.op = "method" =>
       IF \E c \in Range(published.classes.items) : heap[c].name = ccall.name
       THEN ccall.out.err = "IndexError" /\ ccall.out.val = <<>>
            /\ ~HasKey(published.methods, ccall.name)
       ELSE ccall.out.err = NoError /\ LookupAnswer

\* the lookup of the name of a class has raised IndexError
C24_WitnessClassName ==
  /\ ccall.op = "method" /\ ccall.out.err = "IndexError"
  /\ \E c \in Range(published.classes.items) : heap[c].name = ccall.name

\* a lookup has returned a Method, the one the cache holds under the name
C24_WitnessRepeated ==
  /\ ccall.op = "method" /\ ccall.out.val # <<>>
  /\ Cardinality(DOMAIN published.methods) = 1

\* the lookup of a class name followed by "_" and nothing has returned nothing
C24_WitnessNoMethodPart ==
  /\ ccall.op = "method" /\ ccall.out.err = NoError /\ ccall.out.val = <<>>
  /\ \E c \in Range(published.classes.items) : heap[c].name \o <<"_">> = ccall.name

(***************************************************************************)
(* C23                                                                     *)
(***************************************************************************)
\* the fields of the methods ms whose type Method.DEFAULTS has no entry for
FieldsWithoutDefault(ms) ==
  {f \in UNION {Range(heap[m].fields.items) : m \in ms} : ~HasKey(DEFAULTS, heap[f].type)}

\* the caller has a Spec only if the type of every field of every Method is
\* one of the table, and arguments() on a method of it, every field left
\* out, returns the defaults of the fields' types
TypesHaveDefaults ==
  /\ published # NoSpec => FieldsWithoutDefault(PublishedMethods) = {}
  /\ ccall.op = "arguments" =>
       /\ ccall.out.err = NoError
       /\ ccall.out.val =
            [k \in DOMAIN heap[ccall.arg].fields.items |->
               DEFAULTS[heap[heap[ccall.arg].fields.items[k]].type]]

\* post_load fails when a method has a field of a type outside the table
PostLoadRejects ==
  (lpc = "post_load" /\ FieldsWithoutDefault(LoadedMethods) # {}) =>
     lpc' = "failed" /\ published' = NoSpec

\* C23: load returns a Spec only if the resolved type of every field of
\* every Method is one of the ten types of Method.DEFAULTS; a method field of
\* any other type makes post_load fail and load abort, so that arguments()
\* on a loaded model finds a default for every field left out.
C23_LoadedTypesHaveDefaults == []TypesHaveDefaults /\ [][PostLoadRejects]_vars

\* post_load has failed with KeyError on a method whose field has a type
\* outside the table, and the caller has no Spec
C23_Witness ==
  /\ lpc = "failed" /\ lerr = "KeyError"
  /\ lloc.ri = Len(lloc.roots)
  /\ FieldsWithoutDefault(LoadedMethods) # {}
  /\ published = NoSpec

\* arguments() has returned the defaults of a loaded method with two fields,
\* one of a type an alias resolved to
C23_WitnessDefaults ==
  /\ ccall.op = "arguments" /\ ccall.out.err = NoError
  /\ Len(ccall.out.val) >= 2
  /\ \E f \in Range(heap[ccall.arg].fields.items) :
       \E r \in DOMAIN lloc.roots :
         \E f_nd \in FieldTagsOf(lloc.roots[r], heap[heap[ccall.arg].klass].name, heap[ccall.arg].name) :
           /\ Pythonize(f_nd.attrs["name"]) = heap[f].name
           /\ DeclaredType(f_nd).val # heap[f].type

(***************************************************************************)
(* C22                                                                     *)
(***************************************************************************)
\* the Method objects made so far
MethodPlaces == {m \in DOMAIN heap : heap[m].kind = "Method"}

\* after a successful load a Method is marked as a response exactly when a
\* method of its class has it among its responses
ResponseFlagsExact ==
  lpc \in {"return", "done"} =>
    \A c \in Range(lspec.classes.items) :
      \A m \in Range(heap[c].methods.items) :
        heap[m].response =
          (\E n \in Range(heap[c].methods.items) : m \in Range(heap[n].responses))

\* a step of load in an overlay leaves the responses and the response flag
\* of every Method as they were (and makes no Method)
OverlayKeepsResponses ==
  (lloc.ri >= 2 /\ lpc \in {"constants", "domains", "class", "method", "resolve"}) =>
     \A m \in {x \in DOMAIN heap' : heap'[x].kind = "Method"} :
       /\ m \in MethodPlaces
       /\ heap'[m].responses = heap[m].responses
       /\ heap'[m].response = heap[m].response

\* C22: after a successful load the is-response flag of a Method is true if
\* and only if the Method is in the response list of a method of the same
\* Class, a method no list names keeps the flag false, and the processing
\* of overlays changes no response list and no flag.
C22_ResponseFlags == []ResponseFlagsExact /\ [][OverlayKeepsResponses]_vars

\* a load is done whose overlay gave a response tag to a method of the
\* primary document; the class has a method marked as a response and the
\* method the overlay's tag names is not marked
C22_Witness ==
  /\ lpc = "done"
  /\ Len(lloc.roots) = 2
  /\ \E c_nd \in Range(NodeChildren(lloc.roots[2], "class")) :
       \E m_nd \in Range(NodeChildren(c_nd, "method")) :
          /\ NodeChildren(m_nd, "response") # <<>>
          /\ \E m \in LoadedMethods :
                /\ heap[m].name = Pythonize(m_nd.attrs["name"])
                /\ heap[m].responses = <<>>
                /\ \A r \in Range(NodeChildren(m_nd, "response")) :
                     \E n \in LoadedMethods :
                       heap[n].name = Pythonize(r.attrs["name"]) /\ ~heap[n].response
  /\ \E m \in LoadedMethods : heap[m].response

\* a load is done in which a method names itself as its response
C22_WitnessSelf ==
  /\ lpc = "done"
  /\ \E m \in LoadedMethods : m \in Range(heap[m].responses)

(***************************************************************************)
(* C21                                                                     *)
(***************************************************************************)
\* the tags of nds that name n (pythonized), in order
TagsNamed(nds, n) ==
  SelectSeq(nds, LAMBDA x : NodeHasAttr(x, "name") /\ Pythonize(x.attrs["name"]) = n)

RECURSIVE MethodTagsIn(_, _)
\* the method tags named mname of the class tags c_nds, in document order
MethodTagsIn(c_nds, mname) ==
  IF c_nds = <<>> THEN <<>>
  ELSE TagsNamed(NodeChildren(Head(c_nds), "method"), mname) \o MethodTagsIn(Tail(c_nds), mname)

RECURSIVE FieldPositions(_)
\* the 0-based places, each among all the children of its own tag, of the
\* field tags of the tags nds, in document order
FieldPositions(nds) ==
  IF nds = <<>> THEN <<>>
  ELSE NodeChildIndexes(Head(nds), "field") \o FieldPositions(Tail(nds))

\* the tags of root that contribute fields to the Registry of the object o,
\* a Class or a Method of the model
TagsFor(root, o) ==
  IF heap[o].kind = "Class"
  THEN TagsNamed(NodeChildren(root, "class"), heap[o].name)
  ELSE MethodTagsIn(TagsNamed(NodeChildren(root, "class"), heap[heap[o].klass].name),
                    heap[o].name)

RECURSIVE PositionsUpTo(_, _)
\* the places of the field tags the first r documents have for o
PositionsUpTo(r, o) ==
  IF r = 0 THEN <<>>
  ELSE PositionsUpTo(r - 1, o) \o FieldPositions(TagsFor(lloc.roots[r], o))

\* the Classes and Methods of the model load is building
LoadedOwners == Range(lspec.classes.items) \cup LoadedMethods

\* the ids of the fields of o, in insertion order
FieldIds(o) == [k \in DOMAIN heap[o].fields.items |-> heap[heap[o].fields.items[k]].id]

\* when every document has been walked, the fields of every Registry are,
\* in insertion order, the field tags of the documents in document order,
\* and the id of each is the place of its tag among the children of the
\* class or method tag it stands in
IdIsTagPosition ==
  lpc \in {"post_load", "return", "done"} =>
    \A o \in LoadedOwners : FieldIds(o) = PositionsUpTo(Len(lloc.roots), o)

\* the ids of the fields that document r gave to the Registry of o rise
\* strictly in insertion order
DocumentIdsRise(r, o) ==
  LET from == Len(PositionsUpTo(r - 1, o))
      to == Len(PositionsUpTo(r, o))
  IN \A i, j \in (from + 1)..to : i < j => FieldIds(o)[i] < FieldIds(o)[j]

\* a step of load in an overlay, on a tag that names a Class or Method of
\* the model and whose field tags are complete, fails with DuplicateIdentity
\* when the place of one of the field tags is the id of a field of the
\* Registry
OverlayPositionTaken ==
  /\ lpc \in {"class", "method"}
  /\ lloc.ri >= 2
  /\ NodeHasAttr(OverlayTag.nd, "name")
  /\ HasKey(OverlayTag.reg.byname, Pythonize(OverlayTag.nd.attrs["name"]))
  /\ \A f \in Range(NodeChildren(OverlayTag.nd, "field")) :
        /\ NodeHasAttr(f, "name")
        /\ DeclaredType(f).err = NoError
        /\ ~ResolveType(lloc.domains, DeclaredType(f).val).hangs
  /\ \E i \in DOMAIN NodeChildIndexes(OverlayTag.nd, "field") :
        HasKey(heap[OverlayObject].fields.byid, NodeChildIndexes(OverlayTag.nd, "field")[i])

OverlayPositionRejected ==
  OverlayPositionTaken => lpc' = "failed" /\ lerr' = "DuplicateIdentity"

\* C21: the id of a Field is the 0-based place of its field tag among all
\* the child tags of the class or method tag it stands in; so the ids of the
\* fields one document contributes to one Registry are distinct and rise
\* strictly in insertion order; and a field of an overlay whose place is the
\* id of a field already in the Registry is rejected with DuplicateIdentity.
C21_FieldIdIsTagPosition ==
  /\ []IdIsTagPosition
  /\ [](lpc \in {"post_load", "return", "done"} =>
          \A o \in LoadedOwners : \A r \in DOMAIN lloc.roots : DocumentIdsRise(r, o))
  /\ [][OverlayPositionRejected]_vars

\* what does hold: the first and the last part, and the ids of the fields
\* that one tag contributes rise strictly; those of the primary document
\* do, as no two of its tags name the same Class or Method
C21_FieldIdsRisePerTag ==
  /\ []IdIsTagPosition
  /\ [](lpc \in {"post_load", "return", "done"} =>
          \A o \in LoadedOwners :
             /\ DocumentIdsRise(1, o)
             /\ \A r \in DOMAIN lloc.roots :
                  Len(TagsFor(lloc.roots[r], o)) <= 1 => DocumentIdsRise(r, o))
  /\ [][OverlayPositionRejected]_vars

\* a load is done in which an overlay named a method in two tags and gave
\* it, from the second, a field of a smaller id than from the first
C21_WitnessFalls ==
  /\ lpc = "done"
  /\ \E o \in LoadedMethods : \E r \in DOMAIN lloc.roots :
       /\ Len(TagsFor(lloc.roots[r], o)) = 2
       /\ ~DocumentIdsRise(r, o)

\* a field of an overlay was rejected for its place alone: its name was new
C21_WitnessRejected ==
  /\ lpc = "failed" /\ lerr = "DuplicateIdentity"
  /\ lloc.ri = 2
  /\ \E o \in LoadedOwners :
       \E nd \in Range(TagsFor(lloc.roots[2], o)) :
         /\ NodeChildren(nd, "field") # <<>>
         /\ \A f \in Range(NodeChildren(nd, "field")) :
              ~HasKey(heap[o].fields.byname, Pythonize(f.attrs["name"]))
         /\ \E i \in DOMAIN NodeChildIndexes(nd, "field") :
              HasKey(heap[o].fields.byid, NodeChildIndexes(nd, "field")[i])

====
